---- MODULE Spec2Model ----
(***************************************************************************)
(* A model of the IBM Cloud service-discovery tool (src/main.go).          *)
(*                                                                         *)
(* The module holds one group of variables per component and one           *)
(* specification per component:                                            *)
(*   SpecWalk     the paginated walk of one (region, resource group) unit  *)
(*   SpecFetch    fetchAllInstances: the fan-out / fan-in of one account   *)
(*   SpecPool     the worker-slot accounting of a request over accounts    *)
(*   SpecHandler  instanceHandler and prometheusHandler                    *)
(*   SpecCache    fetchInstances / fetchAllInstances against Redis         *)
(*   SpecPublish  the writers of the target file                           *)
(*   SpecResolve  getResourceGroupID and resourceGroupIDCache               *)
(*   SpecIPCache  the goroutines of instanceHandler and instanceCache       *)
(*   SpecEnrich   the enrichment of one listed page of instances            *)
(*   SpecLabel    the target built for one instance                         *)
(*   SpecCred     one discovery run under two credentials                   *)
(*   SpecQuery    the query of a request to /instances                      *)
(*   SpecMask     the masking of sensitive strings                          *)
(*   SpecRace     two writes of the target file under way at once           *)
(* A specification leaves the variables of the other components unchanged. *)
(***************************************************************************)
EXTENDS Integers, Sequences, FiniteSets, TLC

VARIABLES
    \* ---- the walk of one work unit (fetchInstancesForRegionAndResourceGroup)
    wkPages,      \* the page chain the listing API serves for this unit
    wkPc,         \* "loop" while in the for-loop, "returned" after return
    wkStart,      \* options.Start: "" while unset, else the start marker
    wkCalls,      \* the start marker of every ListInstances call, in order
    wkInstances,  \* the local slice `instances`
    wkErr,        \* the returned error: "nil" or "list"
    \* ---- the Redis store (rdb)
    redisMode,    \* "up": every command succeeds; "down": every command fails
    redisStore,   \* cache key -> the stored instance sequence, or NoEntry
    \* ---- one call of fetchAllInstances(account, resourceGroups)
    faRGs,        \* the resourceGroups argument
    faPc,         \* "start", "dispatch", "collect", "returned"
    faWork,       \* the (region, resourceGroup) pairs in loop order
    faNext,       \* the position of the dispatch loop in faWork
    faPool,       \* len(workerPool): the worker slots held
    faWg,         \* the WaitGroup counter
    faClosed,     \* whether instanceChan is closed
    faAll,        \* allInstances
    faRet,        \* the returned ([]Instance, error)
    wPc,          \* per work unit: "idle", "running", "sending", "done"
    wRes,         \* per work unit: what its fetch returned
    \* ---- the worker slots of one request (a handler's fan-out over accounts)
    plPc,         \* per account: "idle", "dispatch", "collect", "returned"
    plUnits,      \* per account: the number of (region, resourceGroup) pairs
    plNext,       \* per account: the pairs dispatched so far
    plRunning,    \* per account: the workers inside their fetch call
    plSending,    \* per account: the workers blocked on instanceChan <-
    \* ---- one request to instanceHandler or prometheusHandler
    hdKind,       \* "instances" or "prometheus"
    hdAccounts,   \* accountList
    hdRegions,    \* regionList
    hdRGs,        \* resourceGroupList
    hdRawRGs,     \* the resource_groups parameter of the query, "" when absent
    hdPc,         \* "collect" while ranging over instanceChan, then "responded"
    hdWPc,        \* per position of accountList: "running", "sending", "done"
    hdFetched,    \* per position: what fetchAllInstances returned
    hdBatch,      \* per position: the slice the goroutine sends
    hdCache,      \* instanceCache: region -> the map fetchInstanceIPs returned
    hdClosed,     \* whether instanceChan is closed
    hdAll,        \* allInstances
    hdResp,       \* the HTTP response: status and body
    hdFile,       \* what the request wrote to outputFile
    \* ---- successive discoveries of accounts against the Redis cache
    dcCalls,      \* the calls started so far
    dcFn,         \* the function called: "fetchInstances" or "fetchAllInstances"
    dcAccount,    \* its account argument
    dcPc,         \* "idle", "fetch" (cache missed or not read), "set", "returned"
    dcStart,      \* the store's entry of the account when the call started
    dcPipe,       \* what the fan-out over the account's units produced
    dcRet,        \* the returned ([]Instance, error)
    \* ---- the writers of the service-discovery file
    fsFile,       \* content of the output path: "absent", "" or a document
    fsBak,        \* content of the output path + ".bak"
    pbCalls,      \* the writes started so far
    pbOp,         \* per writer: "writeSDConfig" or "prometheusHandler"
    pbPc,         \* per writer: "idle", "backup", "create", "encode", "done"
    pbContent,    \* per writer: the document it encodes
    pbPrior,      \* per writer: the content of the path when it was called
    pbOut,        \* per writer, once done: "ok" or the step that failed
    \* ---- the resolutions of resource-group names
    rgCache,      \* resourceGroupIDCache: name -> id, "" when not stored
    rvCalls,      \* the getResourceGroupID calls started so far
    rvPc,         \* per goroutine: "idle", "listing", "done"
    rvAccount,    \* per goroutine: the account whose key the call uses
    rvName,       \* per goroutine: the name to resolve
    rvRet,        \* per goroutine: the returned (string, error)
    rvLookups,    \* per goroutine: ListResourceGroups calls the call issued
    rvListing,    \* per goroutine: "none", "ok" or "failed"
    rvStored,     \* per goroutine: whether the call executed Store
    rvKnown,      \* per goroutine: the id a call had returned for the name
                  \* before this call started, "" when none had
    rgReturned,   \* name -> the id first returned for it, "" when none
    \* ---- the goroutines of instanceHandler and its instanceCache map
    icAccounts,   \* accountList: goroutine i runs for icAccounts[i]
    icRegions,    \* regionList
    icInst,       \* per goroutine: the regions of the instances it fetched
    icIdx,        \* per goroutine: its position in the loop of line 655
    icPc,         \* per goroutine: "loop", "refresh", "store", "lookup",
                  \* "send", "done"
    icMap,        \* instanceCache: region -> account whose listing is
                  \* stored, "" when the key is absent
    icCrashed,    \* the runtime ended the process: concurrent map writes
    \* ---- the enrichment of one listed page of virtual servers
    enListing,    \* what ListFloatingIps returns: a sequence of floating IPs
    enFipFails,   \* whether ListFloatingIps fails instead
    enRaw,        \* the raw instances of the page
    enPc,         \* "start", "loop", "returned"
    enMap,        \* floatingIPMap: interface id -> address, "" when absent
    enIdx,        \* the position of the loop of line 423
    enOut,        \* instances appended so far
    enErr,        \* the returned error
    \* ---- time, in minutes, as the Redis server counts it
    clkNow,       \* the time
    clkPut,       \* key -> the time of the last Set that succeeded, -1 when none
    clkAge,       \* the age of the account's last Set when the latest
                  \* discovery was called, -1 when there had been none
    \* ---- the target built for one instance
    lbInst,       \* the instance
    lbPc,         \* "start", "built"
    lbTarget,     \* the target appended for it
    \* ---- one discovery run twice, with two credentials for the account
    crEnv,        \* run -> the value of IBMCLOUD_API_KEY_<ACCOUNT>
    crAccount,    \* the account
    crRegion,     \* the region
    crListing,    \* what ListFloatingIps returns, in both runs
    crRaw,        \* the raw instance ListInstances returns, in both runs
    crPc,         \* "start", "fetched", "cached", "responded", "published"
    crInst,       \* run -> the instances fetched
    crRedis,      \* run -> the entry written to Redis
    crResp,       \* run -> the body of the answer of /instances
    crFile,       \* run -> the targets of the answer of /prometheus
    \* ---- the query of a request to /instances
    qrFlags,      \* parameter -> the value of the flag or of config.json, "" when none
    qrPc,         \* "start", "listening", "answered"
    qrConf,       \* parameter -> *accounts, *regions, *resourceGroups of main
    qrRequest,    \* parameter -> its value in the request, "" when left out
    qrRawQuery,   \* r.URL.RawQuery as instanceHandler reads it
    qrLists,      \* parameter -> the list instanceHandler fetches for
    \* ---- one sensitive string on its way to the log or the answer
    mkKind,       \* "account", "token", "data": the function it is given to
    mkIn,         \* the string, as the sequence of its characters
    mkPc,         \* "start", "masked"
    mkOut,        \* what is logged or returned
    \* ---- two writes of the same path under way at once
    rcPath,       \* the inode the path names, 0 when there is no such file
    rcBak,        \* the inode path + ".bak" names, 0 when there is none
    rcInode,      \* inode -> the blocks of the file
    rcOp,         \* writer -> "writeSDConfig" or "prometheusHandler"
    rcDoc,        \* writer -> the document it encodes
    rcPc,         \* writer -> "stat", "rename", "create", "encode", "done"
    rcFd,         \* writer -> the inode of the file it has open, 0 when none
    rcOut         \* writer -> "ok", or "rename" when its rename failed

walkVars == <<wkPages, wkPc, wkStart, wkCalls, wkInstances, wkErr>>
redisVars == <<redisMode, redisStore>>
fetchVars == <<faRGs, faPc, faWork, faNext, faPool, faWg, faClosed, faAll,
               faRet, wPc, wRes>>

poolVars == <<plPc, plUnits, plNext, plRunning, plSending>>

handlerVars == <<hdKind, hdAccounts, hdRegions, hdRGs, hdRawRGs, hdPc, hdWPc, hdFetched,
                 hdBatch, hdCache, hdClosed, hdAll, hdResp, hdFile>>

cacheVars == <<dcCalls, dcFn, dcAccount, dcPc, dcStart, dcPipe, dcRet>>

publishVars == <<fsFile, fsBak, pbCalls, pbOp, pbPc, pbContent, pbPrior, pbOut>>

resolveVars == <<rgCache, rvCalls, rvPc, rvAccount, rvName, rvRet, rvLookups, rvListing, rvStored, rvKnown, rgReturned>>

ipCacheVars == <<icAccounts, icRegions, icInst, icIdx, icPc, icMap, icCrashed>>

enrichVars == <<enListing, enFipFails, enRaw, enPc, enMap, enIdx, enOut, enErr>>

clockVars == <<clkNow, clkPut, clkAge>>

labelVars == <<lbInst, lbPc, lbTarget>>

credVars == <<crEnv, crAccount, crRegion, crListing, crRaw, crPc, crInst, crRedis, crResp, crFile>>

queryVars == <<qrFlags, qrPc, qrConf, qrRequest, qrRawQuery, qrLists>>

maskVars == <<mkKind, mkIn, mkPc, mkOut>>

raceVars == <<rcPath, rcBak, rcInode, rcOp, rcDoc, rcPc, rcFd, rcOut>>

vars == <<walkVars, redisVars, fetchVars, poolVars, handlerVars, cacheVars, publishVars, resolveVars, ipCacheVars, enrichVars, clockVars, labelVars, credVars, queryVars, maskVars, raceVars>>

\* What the steps of one component leave unchanged.  The steps of
\* fetchAllInstances and of the handlers say themselves what they do to Redis.
exceptWalk == <<publishVars, redisVars, fetchVars, poolVars, handlerVars, cacheVars, resolveVars, ipCacheVars, enrichVars, clockVars, labelVars, credVars, queryVars, maskVars, raceVars>>
exceptFetch == <<publishVars, walkVars, poolVars, handlerVars, cacheVars, resolveVars, ipCacheVars, enrichVars, clockVars, labelVars, credVars, queryVars, maskVars, raceVars>>
exceptPool == <<publishVars, walkVars, redisVars, fetchVars, handlerVars, cacheVars, resolveVars, ipCacheVars, enrichVars, clockVars, labelVars, credVars, queryVars, maskVars, raceVars>>
exceptHandler == <<publishVars, walkVars, redisVars, fetchVars, poolVars, cacheVars, resolveVars, ipCacheVars, enrichVars, clockVars, labelVars, credVars, queryVars, maskVars, raceVars>>
exceptCache == <<walkVars, fetchVars, poolVars, handlerVars, publishVars, resolveVars, ipCacheVars, enrichVars, labelVars, credVars, queryVars, maskVars, raceVars>>
exceptPublish == <<walkVars, redisVars, fetchVars, poolVars, handlerVars, cacheVars, resolveVars, ipCacheVars, enrichVars, clockVars, labelVars, credVars, queryVars, maskVars, raceVars>>
exceptResolve == <<walkVars, redisVars, fetchVars, poolVars, handlerVars, cacheVars, publishVars, ipCacheVars, enrichVars, clockVars, labelVars, credVars, queryVars, maskVars, raceVars>>
exceptIPCache == <<walkVars, redisVars, fetchVars, poolVars, handlerVars, cacheVars, publishVars, resolveVars, enrichVars, clockVars, labelVars, credVars, queryVars, maskVars, raceVars>>
exceptEnrich == <<walkVars, redisVars, fetchVars, poolVars, handlerVars, cacheVars, publishVars, resolveVars, ipCacheVars, clockVars, labelVars, credVars, queryVars, maskVars, raceVars>>
exceptLabel == <<walkVars, redisVars, fetchVars, poolVars, handlerVars, cacheVars, publishVars, resolveVars, ipCacheVars, enrichVars, clockVars, credVars, queryVars, maskVars, raceVars>>
exceptCred == <<walkVars, redisVars, fetchVars, poolVars, handlerVars, cacheVars, publishVars, resolveVars, ipCacheVars, enrichVars, clockVars, labelVars, queryVars, maskVars, raceVars>>
exceptQuery == <<walkVars, redisVars, fetchVars, poolVars, handlerVars, cacheVars, publishVars, resolveVars, ipCacheVars, enrichVars, clockVars, labelVars, credVars, maskVars, raceVars>>
exceptMask == <<walkVars, redisVars, fetchVars, poolVars, handlerVars, cacheVars, publishVars, resolveVars, ipCacheVars, enrichVars, clockVars, labelVars, credVars, queryVars, raceVars>>
exceptRace == <<walkVars, redisVars, fetchVars, poolVars, handlerVars, cacheVars, publishVars, resolveVars, ipCacheVars, enrichVars, clockVars, labelVars, credVars, queryVars, maskVars>>

(***************************************************************************)
(* Bounds of the model.                                                    *)
(***************************************************************************)
MaxPages == 3
MaxUnits == 4
MaxPoolRGs == 6
MaxDiscover == 2
MaxPublish == 3
MaxResolve == 3
MaxBatch == 2
MaxClock == 7
MaxTags == 3

\* The longest sensitive string masked.
MaxSecretLen == 6

\* The most blocks a document of targets has.
MaxBlocks == 3

(***************************************************************************)
(* Helpers.                                                                *)
(***************************************************************************)
RECURSIVE Concat(_)
\* Concat(ss): the concatenation of a sequence of sequences (append(a, b...)).
Concat(ss) ==
    IF ss = <<>> THEN <<>> ELSE Head(ss) \o Concat(Tail(ss))

\* The elements of a sequence.
Range(s) == {s[i] : i \in 1..Len(s)}

(***************************************************************************)
(*                        PAGINATED COLLECTION WALK                        *)
(* fetchInstancesForRegionAndResourceGroup, lines 416-483; the loop of     *)
(* fetchInstancesForRegion, lines 316-382, is the same text.               *)
(***************************************************************************)

\* The continuation cursor of page k: the value of the "start" query
\* parameter of its Next.Href.
Cursor(k) == <<"c1", "c2", "c3", "c4", "c5", "c6">>[k]

\* result.Next == nil || result.Next.Href == nil
NoNext == [kind |-> "nil", parses |-> TRUE, start |-> ""]

\* result.Next.Href of page k: a URL that url.Parse accepts or rejects, and
\* whose query carries start=s ("" when the parameter is missing or empty).
Href(parses, s) == [kind |-> "href", parses |-> parses, start |-> s]

\* The raw instances page k carries: none, or the one instance <<"vsi", k>>.
PageItems(k) == {<<>>, << <<"vsi", k>> >>}

\* The Next field of page k of a chain of n pages.  A page before the last
\* announces a further page (its Href carries the cursor, and the URL text is
\* either well-formed or not); the last page has no Next, or a Next whose
\* start parameter is empty.
PageNexts(k, n) ==
    IF k < n THEN {Href(TRUE, Cursor(k)), Href(FALSE, Cursor(k))}
    ELSE {NoNext, Href(TRUE, "")}

\* All page chains of at most MaxPages pages.
PageChains ==
    UNION {
        {ch \in [1..n -> [items : {<<>>} \cup {<< <<"vsi", k>> >> : k \in 1..n},
                          next : {NoNext} \cup {Href(p, s) : p \in BOOLEAN,
                                      s \in {""} \cup {Cursor(k) : k \in 1..n}}]] :
            \A k \in 1..n : /\ ch[k].items \in PageItems(k)
                            /\ ch[k].next \in PageNexts(k, n)}
        : n \in 1..MaxPages}

\* The listing API: the call without a start marker serves page 1, the call
\* with the cursor of page k serves page k+1.  0 when no page has that marker.
ServedPage(pages, start) ==
    IF start = "" THEN 1
    ELSE IF \E k \in 1..Len(pages) - 1 : Cursor(k) = start
         THEN (CHOOSE k \in 1..Len(pages) - 1 : Cursor(k) = start) + 1
         ELSE 0

\* A pagination block without the check of lines 471-474 for an empty start.
PaginationStep_NoEmptyCheck(next) ==
    IF next.kind = "nil" THEN [do |-> "break", start |-> ""]
    ELSE IF ~next.parses THEN [do |-> "break", start |-> ""]
    ELSE [do |-> "continue", start |-> next.start]

\* url.Parse(*result.Next.Href) followed by Query().Get("start"), lines
\* 461-476: what the loop does after a page.  "break" ends the loop with
\* the instances read so far, "continue" sets options.Start.
PaginationStep(next) ==
    IF next.kind = "nil" THEN [do |-> "break", start |-> ""]
    ELSE IF ~next.parses THEN [do |-> "break", start |-> ""]
    ELSE IF next.start = "" THEN [do |-> "break", start |-> ""]
    ELSE [do |-> "continue", start |-> next.start]

\* The next value of options.Start after a page (options.SetStart, line 476).
SetStart(old, step) == step.start

WalkIdle ==
    /\ wkPages = <<>>
    /\ wkPc = "returned"
    /\ wkStart = ""
    /\ wkCalls = <<>>
    /\ wkInstances = <<>>
    /\ wkErr = "nil"

WalkInit ==
    /\ wkPages \in PageChains
    /\ wkPc = "loop"
    /\ wkStart = ""
    /\ wkCalls = <<>>
    /\ wkInstances = <<>>
    /\ wkErr = "nil"

\* One iteration of the for-loop whose ListInstances call fails (line 418):
\* return nil, err.
WalkListFails ==
    /\ wkPc = "loop"
    /\ Len(wkCalls) <= MaxPages
    /\ wkCalls' = Append(wkCalls, wkStart)
    /\ wkInstances' = <<>>
    /\ wkErr' = "list"
    /\ wkPc' = "returned"
    /\ UNCHANGED <<wkPages, wkStart>>
    /\ UNCHANGED exceptWalk

\* One iteration of the for-loop whose ListInstances call succeeds: the
\* page's instances are appended, then the pagination block runs.
WalkPage ==
    /\ wkPc = "loop"
    /\ Len(wkCalls) <= MaxPages
    /\ ServedPage(wkPages, wkStart) # 0
    /\ LET page == wkPages[ServedPage(wkPages, wkStart)]
           step == PaginationStep(page.next)
       IN  /\ wkCalls' = Append(wkCalls, wkStart)
           /\ wkInstances' = wkInstances \o page.items
           /\ IF step.do = "continue"
              THEN /\ wkStart' = SetStart(wkStart, step)
                   /\ wkPc' = "loop"
              ELSE /\ wkStart' = wkStart
                   /\ wkPc' = "returned"
    /\ UNCHANGED <<wkPages, wkErr>>
    /\ UNCHANGED exceptWalk

WalkNext == WalkListFails \/ WalkPage

(***************************************************************************)
(*                              REDIS CACHE                                *)
(***************************************************************************)
Accounts == {"account1", "account2"}

\* cacheKey := fmt.Sprintf("instances:%s", account)
CacheKey(account) == "instances:" \o account

\* expiry = 5 * time.Minute, in minutes.
expiry == 5

NoEntry == [present |-> FALSE, bytes |-> <<>>, ttl |-> 0]

RedisEmpty == [k \in {CacheKey(a) : a \in Accounts} |-> NoEntry]

\* json.Marshal(allInstances): the document holding the sequence.
Marshal(instances) == <<"json", instances>>

\* json.Unmarshal([]byte(cached), &instances)
Unmarshal(bytes) ==
    IF Len(bytes) = 2 /\ bytes[1] = "json"
    THEN [err |-> "nil", instances |-> bytes[2]]
    ELSE [err |-> "syntax", instances |-> <<>>]

\* rdb.Set(ctx, key, bytes, ttl).Err() and the store it leaves.
RedisSet(store, mode, key, bytes, ttl) ==
    IF mode = "up"
    THEN [err |-> "nil",
          store |-> [store EXCEPT ![key] =
                        [present |-> TRUE, bytes |-> bytes, ttl |-> ttl]]]
    ELSE [err |-> "unavailable", store |-> store]

\* A caller that hands a failed cache write on to its own caller.
ReturnAfterSet_Propagates(all, setErr) ==
    IF setErr # "nil"
    THEN [set |-> TRUE, instances |-> <<>>, err |-> setErr]
    ELSE [set |-> TRUE, instances |-> all, err |-> "nil"]

\* Lines 168-179 and 239-241: whatever rdb.Set returned is logged at most;
\* the aggregate is returned with a nil error.
ReturnAfterSet(all, setErr) == [set |-> TRUE, instances |-> all, err |-> "nil"]

\* rdb.Get(ctx, key).Result()
RedisGet(store, mode, key) ==
    IF mode # "up" THEN [err |-> "unavailable", bytes |-> <<>>]
    ELSE IF store[key].present THEN [err |-> "nil", bytes |-> store[key].bytes]
    ELSE [err |-> "redis.Nil", bytes |-> <<>>]

RedisIdle ==
    /\ redisMode = "up"
    /\ redisStore = RedisEmpty

(***************************************************************************)
(*                    THE CLOUD THE COLLABORATORS SERVE                    *)
(***************************************************************************)
\* getAllRegions: the regions the global endpoint lists.
AllRegions == <<"us-east", "eu-de">>

\* The resource-group names a request may carry.
RGNames == {"default", "prod"}

\* The Instance built at lines 445-457 for the one virtual server of
\* (account, region, resource group).
MkInstance(account, region, rg) ==
    [Name |-> "vsi-" \o region \o "-" \o rg,
     ID |-> "id-" \o account \o "-" \o region \o "-" \o rg,
     Region |-> region,
     Account |-> account,
     PublicIP |-> "",
     PrivateIP |-> "10." \o region \o "." \o rg,
     Status |-> "running",
     AvailabilityZone |-> region \o "-1",
     InstanceID |-> "crn:" \o account \o ":" \o region \o ":" \o rg,
     Profile |-> "bx2-2x8",
     Tags |-> <<"env:" \o rg>>]

\* What fetchInstancesForRegionAndResourceGroup returns for a unit when
\* every call it makes succeeds.
UnitInstances(account, unit) == <<MkInstance(account, unit.region, unit.rg)>>

(***************************************************************************)
(*                           fetchAllInstances                             *)
(***************************************************************************)
\* workerPool := make(chan struct{}, 10)
PoolCapacity == 10

\* The account argument of the modelled call.
faAccount == "account1"

\* The nested loops of lines 137-138: regions outside, resourceGroups inside.
WorkSet(regions, rgs) ==
    [i \in 1..(Len(regions) * Len(rgs)) |->
        [region |-> regions[((i - 1) \div Len(rgs)) + 1],
         rg |-> rgs[((i - 1) % Len(rgs)) + 1]]]

\* The resourceGroups arguments: strings.Split never returns an empty list.
RGLists == UNION {[1..n -> RGNames] : n \in 1..MaxUnits}

\* The region lists getAllRegions may return.
RegionLists == {SubSeq(AllRegions, 1, n) : n \in 1..Len(AllRegions)}

NoRet == [set |-> FALSE, instances |-> <<>>, err |-> "nil"]

Ret(instances, err) == [set |-> TRUE, instances |-> instances, err |-> err]

NoRes == [err |-> "nil", instances |-> <<>>]

FetchIdle ==
    /\ faRGs = <<>>
    /\ faPc = "returned"
    /\ faWork = <<>>
    /\ faNext = 1
    /\ faPool = 0
    /\ faWg = 0
    /\ faClosed = FALSE
    /\ faAll = <<>>
    /\ faRet = NoRet
    /\ wPc = <<>>
    /\ wRes = <<>>

FetchInit ==
    /\ faRGs \in RGLists
    /\ faPc = "start"
    /\ faWork = <<>>
    /\ faNext = 1
    /\ faPool = 0
    /\ faWg = 0
    /\ faClosed = FALSE
    /\ faAll = <<>>
    /\ faRet = NoRet
    /\ wPc = <<>>
    /\ wRes = <<>>

\* Lines 121-130: getAPIKey fails.
FetchAllKeyFails ==
    /\ faPc = "start"
    /\ faRet' = Ret(<<>>, "apikey")
    /\ faPc' = "returned"
    /\ UNCHANGED <<faRGs, faWork, faNext, faPool, faWg, faClosed, faAll, wPc, wRes>>
    /\ UNCHANGED <<redisVars, exceptFetch>>

\* Lines 127-130: getAllRegions fails.
FetchAllRegionsFail ==
    /\ faPc = "start"
    /\ faRet' = Ret(<<>>, "regions")
    /\ faPc' = "returned"
    /\ UNCHANGED <<faRGs, faWork, faNext, faPool, faWg, faClosed, faAll, wPc, wRes>>
    /\ UNCHANGED <<redisVars, exceptFetch>>

\* Lines 121-135: the key and the regions are obtained, the channels made.
FetchAllBegin ==
    /\ faPc = "start"
    /\ \E regions \in RegionLists :
          /\ Len(regions) * Len(faRGs) <= MaxUnits
          /\ faWork' = WorkSet(regions, faRGs)
    /\ wPc' = [u \in DOMAIN faWork' |-> "idle"]
    /\ wRes' = [u \in DOMAIN faWork' |-> NoRes]
    /\ faNext' = 1
    /\ faPc' = "dispatch"
    /\ UNCHANGED <<faRGs, faPool, faWg, faClosed, faAll, faRet>>
    /\ UNCHANGED <<redisVars, exceptFetch>>

\* Whether the dispatcher can take a worker slot (workerPool <- struct{}{}).
SlotFree(held) == held < PoolCapacity

\* Lines 139-141: wg.Add(1), acquire a slot, start the goroutine.
FetchAllDispatch ==
    /\ faPc = "dispatch"
    /\ faNext <= Len(faWork)
    /\ SlotFree(faPool)
    /\ faWg' = faWg + 1
    /\ faPool' = faPool + 1
    /\ wPc' = [wPc EXCEPT ![faNext] = "running"]
    /\ faNext' = faNext + 1
    /\ UNCHANGED <<faRGs, faPc, faWork, faClosed, faAll, faRet, wRes>>
    /\ UNCHANGED <<redisVars, exceptFetch>>

\* Lines 153-161: the loops are over; the closer goroutine is started and
\* the range over instanceChan begins.
FetchAllLoopEnd ==
    /\ faPc = "dispatch"
    /\ faNext > Len(faWork)
    /\ faPc' = "collect"
    /\ UNCHANGED <<faRGs, faWork, faNext, faPool, faWg, faClosed, faAll, faRet,
                   wPc, wRes>>
    /\ UNCHANGED <<redisVars, exceptFetch>>

\* A worker that returns on success and sends on failure.
AfterFetch_Inverted(res) == IF res.err = "nil" THEN "done" ELSE "sending"

\* What a worker does with the result of its fetch (lines 145-150): on an
\* error it logs and returns, else it goes on to send the instances.
AfterFetch(res) == IF res.err # "nil" THEN "done" ELSE "sending"

\* The deferred calls of lines 142-143, run as the goroutine returns: the
\* slot is released and wg.Done() is called.
Release(n) == n - 1

\* Line 145: the worker's fetchInstancesForRegionAndResourceGroup call.  The
\* resource-group resolution or a list call may fail; the worker then logs
\* and returns, which runs its deferred calls.
WorkerFetch(u) ==
    /\ wPc[u] = "running"
    /\ \E res \in {[err |-> "resolve", instances |-> <<>>],
                   [err |-> "list", instances |-> <<>>],
                   [err |-> "nil", instances |-> UnitInstances(faAccount, faWork[u])]} :
          /\ wRes' = [wRes EXCEPT ![u] = res]
          /\ wPc' = [wPc EXCEPT ![u] = AfterFetch(res)]
          /\ faPool' = IF AfterFetch(res) = "done" THEN Release(faPool) ELSE faPool
          /\ faWg' = IF AfterFetch(res) = "done" THEN Release(faWg) ELSE faWg
    /\ UNCHANGED <<faRGs, faPc, faWork, faNext, faClosed, faAll, faRet>>
    /\ UNCHANGED <<redisVars, exceptFetch>>

\* A collector that keeps only what it received last.
Collect_KeepLast(all, instances) == instances

\* Line 162: allInstances = append(allInstances, instances...)
Collect(all, instances) == all \o instances

\* Lines 150 and 161-163: instanceChan is unbuffered, so the worker's send
\* and the collector's receive are one step; the collector appends, the
\* worker returns and its deferred calls run.
WorkerSend(u) ==
    /\ wPc[u] = "sending"
    /\ faPc = "collect"
    /\ ~faClosed
    /\ faAll' = Collect(faAll, wRes[u].instances)
    /\ wPc' = [wPc EXCEPT ![u] = "done"]
    /\ faPool' = Release(faPool)
    /\ faWg' = Release(faWg)
    /\ UNCHANGED <<faRGs, faPc, faWork, faNext, faClosed, faRet, wRes>>
    /\ UNCHANGED <<redisVars, exceptFetch>>

\* A closer that does not wait for the workers.
WaitReturns_AtOnce(wg) == TRUE

\* Line 157: wg.Wait() returns when the counter is zero.
WaitReturns(wg) == wg = 0

\* Lines 156-159: wg.Wait() returns, close(instanceChan).
FetchAllClose ==
    /\ faPc = "collect"
    /\ WaitReturns(faWg)
    /\ ~faClosed
    /\ faClosed' = TRUE
    /\ UNCHANGED <<faRGs, faPc, faWork, faNext, faPool, faWg, faAll, faRet, wPc, wRes>>
    /\ UNCHANGED <<redisVars, exceptFetch>>

\* Lines 165-179: the range loop ends on the closed channel, the aggregate is
\* marshalled and written to Redis, and the function returns.
FetchAllReturn ==
    /\ faPc = "collect"
    /\ faClosed
    /\ \E mode \in {"up", "down"} :
          /\ redisMode' = mode
          /\ LET set == RedisSet(redisStore, mode, CacheKey(faAccount),
                                 Marshal(faAll), expiry)
             IN  /\ redisStore' = set.store
                 /\ faRet' = ReturnAfterSet(faAll, set.err)
    /\ faPc' = "returned"
    /\ UNCHANGED <<faRGs, faWork, faNext, faPool, faWg, faClosed, faAll, wPc, wRes>>
    /\ UNCHANGED exceptFetch

FetchNext ==
    \/ FetchAllKeyFails
    \/ FetchAllRegionsFail
    \/ FetchAllBegin
    \/ FetchAllDispatch
    \/ FetchAllLoopEnd
    \/ \E u \in DOMAIN faWork : WorkerFetch(u)
    \/ \E u \in DOMAIN faWork : WorkerSend(u)
    \/ FetchAllClose
    \/ FetchAllReturn

(***************************************************************************)
(*              THE WORKER SLOTS OF A REQUEST OVER ACCOUNTS                *)
(* instanceHandler (lines 645-678) and prometheusHandler (lines 761-781)   *)
(* start one goroutine per requested account, each calling                 *)
(* fetchAllInstances, which makes its own workerPool (line 135).  The      *)
(* workers of an account are interchangeable here, so they are counted:    *)
(* the steps are those of SpecFetch with the units' identities dropped.    *)
(***************************************************************************)
\* The slots of an account's workerPool that are held: a worker holds its
\* slot from the dispatch to its return, also while blocked on the send.
SlotsHeld(a) == plRunning[a] + plSending[a]

PoolIdle ==
    /\ plPc = [a \in Accounts |-> "idle"]
    /\ plUnits = [a \in Accounts |-> 0]
    /\ plNext = [a \in Accounts |-> 0]
    /\ plRunning = [a \in Accounts |-> 0]
    /\ plSending = [a \in Accounts |-> 0]

\* A request for one account or for both, with 1..MaxPoolRGs resource
\* groups; every account lists the regions AllRegions.
PoolInit ==
    /\ \E requested \in {{"account1"}, Accounts} :
          plPc = [a \in Accounts |-> IF a \in requested THEN "dispatch" ELSE "idle"]
    /\ \E g \in 1..MaxPoolRGs :
          plUnits = [a \in Accounts |-> Len(AllRegions) * g]
    /\ plNext = [a \in Accounts |-> 0]
    /\ plRunning = [a \in Accounts |-> 0]
    /\ plSending = [a \in Accounts |-> 0]

\* Lines 139-141 for account a.
PoolDispatch(a) ==
    /\ plPc[a] = "dispatch"
    /\ plNext[a] < plUnits[a]
    /\ SlotFree(SlotsHeld(a))
    /\ plNext' = [plNext EXCEPT ![a] = @ + 1]
    /\ plRunning' = [plRunning EXCEPT ![a] = @ + 1]
    /\ UNCHANGED <<plPc, plUnits, plSending>>
    /\ UNCHANGED exceptPool

\* Lines 153-161 for account a: the loops are over, the collector starts.
PoolLoopEnd(a) ==
    /\ plPc[a] = "dispatch"
    /\ plNext[a] = plUnits[a]
    /\ plPc' = [plPc EXCEPT ![a] = "collect"]
    /\ UNCHANGED <<plUnits, plNext, plRunning, plSending>>
    /\ UNCHANGED exceptPool

\* Lines 145-149: a worker's fetch fails; it returns and releases its slot.
PoolFetchFails(a) ==
    /\ plRunning[a] > 0
    /\ plRunning' = [plRunning EXCEPT ![a] = Release(@)]
    /\ UNCHANGED <<plPc, plUnits, plNext, plSending>>
    /\ UNCHANGED exceptPool

\* Lines 145-150: a worker's fetch succeeds; it blocks on the send.
PoolFetchOk(a) ==
    /\ plRunning[a] > 0
    /\ plRunning' = [plRunning EXCEPT ![a] = @ - 1]
    /\ plSending' = [plSending EXCEPT ![a] = @ + 1]
    /\ UNCHANGED <<plPc, plUnits, plNext>>
    /\ UNCHANGED exceptPool

\* Lines 150 and 161-163: the collector receives from a blocked worker,
\* which returns and releases its slot.
PoolReceive(a) ==
    /\ plPc[a] = "collect"
    /\ plSending[a] > 0
    /\ plSending' = [plSending EXCEPT ![a] = Release(@)]
    /\ UNCHANGED <<plPc, plUnits, plNext, plRunning>>
    /\ UNCHANGED exceptPool

\* Lines 156-179: all workers are done, the channel is closed, the pass
\* returns.
PoolReturn(a) ==
    /\ plPc[a] = "collect"
    /\ SlotsHeld(a) = 0
    /\ plPc' = [plPc EXCEPT ![a] = "returned"]
    /\ UNCHANGED <<plUnits, plNext, plRunning, plSending>>
    /\ UNCHANGED exceptPool

PoolNext ==
    \E a \in Accounts :
        \/ PoolDispatch(a)
        \/ PoolLoopEnd(a)
        \/ PoolFetchFails(a)
        \/ PoolFetchOk(a)
        \/ PoolReceive(a)
        \/ PoolReturn(a)

(***************************************************************************)
(*                  instanceHandler AND prometheusHandler                  *)
(* One goroutine per position of accountList calls fetchAllInstances       *)
(* (lines 645-678, 761-781).  Here that call is one step: it returns an    *)
(* error, or the instances of the units that did not fail (SpecFetch),     *)
(* taken in loop order.                                                    *)
(***************************************************************************)
\* The requests the model covers.
AccountLists == {<<"account1">>, <<"account1", "account2">>, <<"account2", "account2">>}
RequestedRegionLists == {<<"us-east">>, <<"eu-de">>, <<"us-east", "eu-de">>, <<"us-south">>}
RequestedRGLists == {<<"default">>, <<"default", "prod">>}

\* func contains(slice []string, item string) bool
contains(slice, item) == \E i \in 1..Len(slice) : slice[i] = item

\* The aggregate fetchAllInstances returns when exactly the units of ok
\* succeed.
Aggregate(account, work, ok) ==
    Concat([u \in DOMAIN work |->
               IF u \in ok THEN UnitInstances(account, work[u]) ELSE <<>>])

\* What fetchAllInstances(account, rgs) may return.
FetchAllOutcomes(account, rgs) ==
    {Ret(<<>>, "apikey"), Ret(<<>>, "regions")} \cup
    {Ret(Aggregate(account, WorkSet(AllRegions, rgs), ok), "nil") :
        ok \in SUBSET (1..(Len(AllRegions) * Len(rgs)))}

\* fetchInstanceIPs(apiKey, region), lines 526-588: the entries of the
\* returned map, one per virtual server of the account in the region.  The
\* Instance values it builds have no Profile.
FetchInstanceIPs(account, region) ==
    {[ID |-> MkInstance(account, region, rg).ID,
      PrivateIP |-> MkInstance(account, region, rg).PrivateIP,
      PublicIP |-> MkInstance(account, region, rg).PublicIP,
      Profile |-> ""] : rg \in RGNames}

NoMap == [present |-> FALSE, entries |-> {}]

\* Lines 669-673: the fields overwritten from the map entry of inst.ID.
OverwriteIPs(inst, entries) ==
    IF \E e \in entries : e.ID = inst.ID
    THEN LET ipInfo == CHOOSE e \in entries : e.ID = inst.ID
         IN  [inst EXCEPT !.PrivateIP = ipInfo.PrivateIP,
                          !.PublicIP = ipInfo.PublicIP,
                          !.Profile = ipInfo.Profile]
    ELSE inst

RECURSIVE RefreshLoop(_, _, _, _, _, _)
\* The loop of lines 655-674 from position i on.  ipOut[region] is how the
\* lookup of an uncached region ends: "keyfail" (getAPIKey fails: continue),
\* "listfail" (fetchInstanceIPs returns a nil map) or "ok".
RefreshLoop(instances, i, cache, account, regionList, ipOut) ==
    IF i > Len(instances) THEN [instances |-> instances, cache |-> cache]
    ELSE LET inst == instances[i]
             r == inst.Region
         IN  IF ~contains(regionList, r)
             THEN RefreshLoop(instances, i + 1, cache, account, regionList, ipOut)
             ELSE IF ~cache[r].present /\ ipOut[r] = "keyfail"
             THEN RefreshLoop(instances, i + 1, cache, account, regionList, ipOut)
             ELSE LET cache2 ==
                          IF cache[r].present THEN cache
                          ELSE [cache EXCEPT ![r] =
                                   [present |-> TRUE,
                                    entries |-> IF ipOut[r] = "ok"
                                                THEN FetchInstanceIPs(account, r)
                                                ELSE {}]]
                  IN  RefreshLoop([instances EXCEPT ![i] =
                                      OverwriteIPs(inst, cache2[r].entries)],
                                  i + 1, cache2, account, regionList, ipOut)

\* What the goroutine of instanceHandler sends (line 676): the slice
\* fetchAllInstances returned, after the loop of lines 655-674.
InstanceHandlerBatch(refreshed) == refreshed

\* A goroutine that sends what it fetched, unfiltered.
PrometheusHandlerBatch_NoFilter(instances, regionList) == instances

\* Lines 771-779: what the goroutine of prometheusHandler sends.
PrometheusHandlerBatch(instances, regionList) ==
    SelectSeq(instances, LAMBDA inst : contains(regionList, inst.Region))

\* A loop that numbers the tags from the last one.
TagValue_Reversed(tags, i) == tags[Len(tags) + 1 - i]

\* Lines 808-810: the i-th tag of instance.Tags, counted from 1 here, is the
\* value of the label of index i - 1.
TagValue(tags, i) == tags[i]

\* Lines 794-810: the labels of one target.
Labels(instance) ==
    LET fixed == {"instance", "region", "account", "status", "private_ip",
                  "public_ip", "instance_id", "availability_zone", "profile",
                  "resource_group"}
        tagKeys == {"tag_" \o ToString(i - 1) : i \in 1..Len(instance.Tags)}
    IN  [k \in fixed \cup tagKeys |->
            CASE k = "instance" -> instance.Name
              [] k = "region" -> instance.Region
              [] k = "account" -> instance.Account
              [] k = "status" -> instance.Status
              [] k = "private_ip" -> instance.PrivateIP
              [] k = "public_ip" -> instance.PublicIP
              [] k = "instance_id" -> instance.InstanceID
              [] k = "availability_zone" -> instance.AvailabilityZone
              [] k = "profile" -> instance.Profile
              [] k = "resource_group" -> instance.Account
              [] OTHER -> TagValue(instance.Tags,
                     CHOOSE i \in 1..Len(instance.Tags) : k = "tag_" \o ToString(i - 1))]

\* Lines 792-817: one target per instance of allInstances.
Targets(all) ==
    [i \in 1..Len(all) |-> [targets |-> <<all[i].PrivateIP>>, labels |-> Labels(all[i])]]

\* json.NewEncoder(w).Encode(v): the document holding v.
Encode(v) == <<"json", v>>

NoResp == [status |-> 0, body |-> <<>>]
NoFile == [written |-> FALSE, content |-> <<>>]

\* The values of the resource_groups parameter; "" is the absent parameter.
ResourceGroupQueries == {"", "default", "default,prod"}

\* strings.Split(s, ",") on the values of the parameters, of which these
\* hold a comma.
Split(s) ==
    CASE s = "" -> <<"">>
      [] s = "default" -> <<"default">>
      [] s = "default,prod" -> <<"default", "prod">>
      [] s = "account1,account2" -> <<"account1", "account2">>
      [] OTHER -> <<s>>

\* Lines 631-638 and 743-755: an empty parameter becomes "default" before
\* it is split.
ResourceGroupList(raw) == Split(IF raw = "" THEN "default" ELSE raw)

HandlerIdle ==
    /\ hdKind = "instances"
    /\ hdAccounts = <<>>
    /\ hdRegions = <<>>
    /\ hdRGs = <<>>
    /\ hdRawRGs = ""
    /\ hdPc = "responded"
    /\ hdWPc = <<>>
    /\ hdFetched = <<>>
    /\ hdBatch = <<>>
    /\ hdCache = [r \in Range(AllRegions) |-> NoMap]
    /\ hdClosed = FALSE
    /\ hdAll = <<>>
    /\ hdResp = NoResp
    /\ hdFile = NoFile

\* Lines 620-647 and 732-763: the query is read and the goroutines started.
HandlerInit ==
    /\ hdKind \in {"instances", "prometheus"}
    /\ hdAccounts \in AccountLists
    /\ hdRegions \in RequestedRegionLists
    /\ hdRGs \in RequestedRGLists
    /\ hdRawRGs \in {raw \in ResourceGroupQueries : ResourceGroupList(raw) = hdRGs}
    /\ hdPc = "collect"
    /\ hdWPc = [i \in DOMAIN hdAccounts |-> "running"]
    /\ hdFetched = [i \in DOMAIN hdAccounts |-> NoRet]
    /\ hdBatch = [i \in DOMAIN hdAccounts |-> <<>>]
    /\ hdCache = [r \in Range(AllRegions) |-> NoMap]
    /\ hdClosed = FALSE
    /\ hdAll = <<>>
    /\ hdResp = NoResp
    /\ hdFile = NoFile

\* The goroutine of position i: fetchAllInstances returns an error
\* (lines 650-653, 766-769).
HandlerFetchFails(i) ==
    /\ hdWPc[i] = "running"
    /\ \E ret \in FetchAllOutcomes(hdAccounts[i], hdRGs) :
          /\ ret.err # "nil"
          /\ hdFetched' = [hdFetched EXCEPT ![i] = ret]
    /\ hdWPc' = [hdWPc EXCEPT ![i] = "done"]
    /\ UNCHANGED <<hdKind, hdAccounts, hdRegions, hdRGs, hdRawRGs,
                   hdPc, hdBatch, hdCache,
                   hdClosed, hdAll, hdResp, hdFile>>
    /\ UNCHANGED exceptHandler

\* The goroutine of position i of instanceHandler, lines 649-676.
InstanceHandlerWorker(i) ==
    /\ hdKind = "instances"
    /\ hdWPc[i] = "running"
    /\ \E ret \in FetchAllOutcomes(hdAccounts[i], hdRGs) :
       \E ipOut \in [Range(AllRegions) -> {"keyfail", "listfail", "ok"}] :
          /\ ret.err = "nil"
          \* only the lookups the loop makes are choices
          /\ \A r \in Range(AllRegions) :
                (hdCache[r].present \/ ~contains(hdRegions, r)
                   \/ ~\E k \in 1..Len(ret.instances) : ret.instances[k].Region = r)
                => ipOut[r] = "ok"
          /\ LET out == RefreshLoop(ret.instances, 1, hdCache, hdAccounts[i],
                                    hdRegions, ipOut)
             IN  /\ hdFetched' = [hdFetched EXCEPT ![i] = ret]
                 /\ hdBatch' = [hdBatch EXCEPT ![i] = InstanceHandlerBatch(out.instances)]
                 /\ hdCache' = out.cache
    /\ hdWPc' = [hdWPc EXCEPT ![i] = "sending"]
    /\ UNCHANGED <<hdKind, hdAccounts, hdRegions, hdRGs, hdRawRGs,
                   hdPc, hdClosed, hdAll,
                   hdResp, hdFile>>
    /\ UNCHANGED exceptHandler

\* The goroutine of position i of prometheusHandler, lines 765-779.
PrometheusHandlerWorker(i) ==
    /\ hdKind = "prometheus"
    /\ hdWPc[i] = "running"
    /\ \E ret \in FetchAllOutcomes(hdAccounts[i], hdRGs) :
          /\ ret.err = "nil"
          /\ hdFetched' = [hdFetched EXCEPT ![i] = ret]
          /\ hdBatch' = [hdBatch EXCEPT ![i] =
                            PrometheusHandlerBatch(ret.instances, hdRegions)]
    /\ hdWPc' = [hdWPc EXCEPT ![i] = "sending"]
    /\ UNCHANGED <<hdKind, hdAccounts, hdRegions, hdRGs, hdRawRGs,
                   hdPc, hdCache, hdClosed,
                   hdAll, hdResp, hdFile>>
    /\ UNCHANGED exceptHandler

\* Lines 676/779 and 685-687/788-790: the unbuffered send and the
\* collector's append.
HandlerSend(i) ==
    /\ hdWPc[i] = "sending"
    /\ hdPc = "collect"
    /\ ~hdClosed
    /\ hdAll' = Collect(hdAll, hdBatch[i])
    /\ hdWPc' = [hdWPc EXCEPT ![i] = "done"]
    /\ UNCHANGED <<hdKind, hdAccounts, hdRegions, hdRGs, hdRawRGs,
                   hdPc, hdFetched, hdBatch,
                   hdCache, hdClosed, hdResp, hdFile>>
    /\ UNCHANGED exceptHandler

\* Lines 680-683, 783-786: wg.Wait() returns, close(instanceChan).
HandlerClose ==
    /\ hdPc = "collect"
    /\ ~hdClosed
    /\ \A i \in DOMAIN hdAccounts : hdWPc[i] = "done"
    /\ hdClosed' = TRUE
    /\ UNCHANGED <<hdKind, hdAccounts, hdRegions, hdRGs, hdRawRGs,
                   hdPc, hdWPc, hdFetched,
                   hdBatch, hdCache, hdAll, hdResp, hdFile>>
    /\ UNCHANGED exceptHandler

\* A handler that answers with nothing when the pass of any account failed.
ResponseInstances_NoneOnAnyError(all, fetched) ==
    IF \E i \in DOMAIN fetched : fetched[i].err # "nil" THEN <<>> ELSE all

\* Lines 685-692, 788-794: what was collected is answered, whatever the
\* passes returned; a failed pass was logged in its goroutine only.
ResponseInstances(all, fetched) == all

\* Lines 689-692: instanceHandler encodes allInstances as the response.
InstanceHandlerRespond ==
    /\ hdKind = "instances"
    /\ hdPc = "collect"
    /\ hdClosed
    /\ hdResp' = [status |-> 200,
                  body |-> Encode(ResponseInstances(hdAll, hdFetched))]
    /\ hdPc' = "responded"
    /\ UNCHANGED <<hdKind, hdAccounts, hdRegions, hdRGs, hdRawRGs,
                   hdWPc, hdFetched, hdBatch,
                   hdCache, hdClosed, hdAll, hdFile>>
    /\ UNCHANGED exceptHandler

\* Lines 792-841: prometheusHandler builds the targets, writes them to
\* outputFile when one is given, and encodes them as the response.  fileOp
\* is "none" (no outputFile), "ok", "createfail" or "encodefail".
PrometheusHandlerRespond ==
    /\ hdKind = "prometheus"
    /\ hdPc = "collect"
    /\ hdClosed
    /\ \E fileOp \in {"none", "ok", "createfail", "encodefail"} :
          /\ hdFile' = IF fileOp = "ok"
                       THEN [written |-> TRUE,
                             content |-> Encode(Targets(
                                 ResponseInstances(hdAll, hdFetched)))]
                       ELSE NoFile
          /\ hdResp' = IF fileOp \in {"createfail", "encodefail"}
                       THEN [status |-> 500, body |-> <<>>]
                       ELSE [status |-> 200,
                             body |-> Encode(Targets(
                                 ResponseInstances(hdAll, hdFetched)))]
    /\ hdPc' = "responded"
    /\ UNCHANGED <<hdKind, hdAccounts, hdRegions, hdRGs, hdRawRGs,
                   hdWPc, hdFetched, hdBatch,
                   hdCache, hdClosed, hdAll>>
    /\ UNCHANGED exceptHandler

HandlerNext ==
    \/ \E i \in DOMAIN hdAccounts : HandlerFetchFails(i)
    \/ \E i \in DOMAIN hdAccounts : InstanceHandlerWorker(i)
    \/ \E i \in DOMAIN hdAccounts : PrometheusHandlerWorker(i)
    \/ \E i \in DOMAIN hdAccounts : HandlerSend(i)
    \/ HandlerClose
    \/ InstanceHandlerRespond
    \/ PrometheusHandlerRespond

(***************************************************************************)
(*                 DISCOVERIES AGAINST THE REDIS CACHE                     *)
(* fetchInstances (lines 183-242) reads the cache and fans out over the    *)
(* regions; fetchAllInstances (lines 120-180), the function the handlers   *)
(* call, fans out over (region, resourceGroup).  The fan-out is one step   *)
(* here (SpecFetch has its steps).                                         *)
(***************************************************************************)
\* fetchInstancesForRegion lists the region without a resource-group filter.
RegionInstances(account, region) ==
    Concat([k \in 1..2 |-> <<MkInstance(account, region, <<"default", "prod">>[k])>>])

\* What the fan-out of fetchInstances (lines 197-234) may produce.
FetchInstancesOutcomes(account) ==
    {Ret(<<>>, "apikey"), Ret(<<>>, "regions")} \cup
    {Ret(Concat([k \in DOMAIN AllRegions |->
                    IF k \in ok THEN RegionInstances(account, AllRegions[k]) ELSE <<>>]),
         "nil") : ok \in SUBSET DOMAIN AllRegions}

\* Lines 185-195: the cached sequence is returned when the Get succeeded
\* and its value decodes; on any other outcome the function goes on to fetch.
AfterGet(get) ==
    IF get.err = "nil" /\ Unmarshal(get.bytes).err = "nil" THEN "hit" ELSE "fetch"

ClockIdle ==
    /\ clkNow = 0
    /\ clkPut = [key \in DOMAIN RedisEmpty |-> -1]
    /\ clkAge = -1

\* The time since the last Set of the key that succeeded, -1 when none.
AgeOf(key) == IF clkPut[key] < 0 THEN -1 ELSE clkNow - clkPut[key]

\* A server that never expires an entry.
Expired_Never(entry, putAt, now) == FALSE

\* The server drops an entry when its time-to-live has run out.
Expired(entry, putAt, now) ==
    entry.present /\ entry.ttl > 0 /\ now >= putAt + entry.ttl

CacheIdle ==
    /\ dcCalls = 0
    /\ dcFn = "fetchInstances"
    /\ dcAccount = "account1"
    /\ dcPc = "idle"
    /\ dcStart = NoEntry
    /\ dcPipe = NoRet
    /\ dcRet = NoRet

\* fetchInstances(account) is called: lines 184-195.
FetchInstancesGet ==
    /\ dcPc \in {"idle", "returned"}
    /\ dcCalls < MaxDiscover
    /\ dcCalls' = dcCalls + 1
    /\ dcFn' = "fetchInstances"
    /\ \E account \in Accounts :
          /\ dcAccount' = account
          /\ dcStart' = redisStore[CacheKey(account)]
          /\ clkAge' = AgeOf(CacheKey(account))
          /\ LET get == RedisGet(redisStore, redisMode, CacheKey(account))
             IN  IF AfterGet(get) = "hit"
                 THEN /\ dcRet' = Ret(Unmarshal(get.bytes).instances, "nil")
                      /\ dcPc' = "returned"
                 ELSE /\ dcRet' = NoRet
                      /\ dcPc' = "fetch"
    /\ dcPipe' = NoRet
    /\ UNCHANGED <<redisVars, clkNow, clkPut>>
    /\ UNCHANGED exceptCache

\* fetchAllInstances(account, ["default"]) is called: lines 120-135.  The
\* cache is not read.
FetchAllInstancesCall ==
    /\ dcPc \in {"idle", "returned"}
    /\ dcCalls < MaxDiscover
    /\ dcCalls' = dcCalls + 1
    /\ dcFn' = "fetchAllInstances"
    /\ \E account \in Accounts :
          /\ dcAccount' = account
          /\ dcStart' = redisStore[CacheKey(account)]
          /\ clkAge' = AgeOf(CacheKey(account))
    /\ dcRet' = NoRet
    /\ dcPipe' = NoRet
    /\ dcPc' = "fetch"
    /\ UNCHANGED <<redisVars, clkNow, clkPut>>
    /\ UNCHANGED exceptCache

\* Lines 197-234 of fetchInstances, lines 121-163 of fetchAllInstances: the
\* key and region lookups and the fan-out.  An error of the lookups is
\* returned; else the aggregate goes on to the cache write.
DiscoverFetch ==
    /\ dcPc = "fetch"
    /\ \E out \in IF dcFn = "fetchInstances"
                  THEN FetchInstancesOutcomes(dcAccount)
                  ELSE FetchAllOutcomes(dcAccount, <<"default">>) :
          /\ dcPipe' = out
          /\ IF out.err # "nil"
             THEN dcRet' = out /\ dcPc' = "returned"
             ELSE dcRet' = NoRet /\ dcPc' = "set"
    /\ UNCHANGED <<dcCalls, dcFn, dcAccount, dcStart>>
    /\ UNCHANGED <<redisVars, clockVars>>
    /\ UNCHANGED exceptCache

\* Lines 165-179 of fetchAllInstances; line 239 (cacheInstancesInRedis,
\* lines 1020-1035) and line 241 of fetchInstances.
DiscoverSetAndReturn ==
    /\ dcPc = "set"
    /\ LET set == RedisSet(redisStore, redisMode, CacheKey(dcAccount),
                           Marshal(dcPipe.instances), expiry)
       IN  /\ redisStore' = set.store
           /\ dcRet' = ReturnAfterSet(dcPipe.instances, set.err)
           /\ clkPut' = IF set.err = "nil"
                        THEN [clkPut EXCEPT ![CacheKey(dcAccount)] = clkNow]
                        ELSE clkPut
    /\ UNCHANGED <<clkNow, clkAge>>
    /\ dcPc' = "returned"
    /\ UNCHANGED <<dcCalls, dcFn, dcAccount, dcStart, dcPipe, redisMode>>
    /\ UNCHANGED exceptCache

\* A minute passes; the server drops the entries whose time-to-live has
\* run out.
RedisExpire ==
    /\ clkNow < MaxClock
    /\ clkNow' = clkNow + 1
    /\ redisStore' = [key \in DOMAIN redisStore |->
                         IF Expired(redisStore[key], clkPut[key], clkNow + 1)
                         THEN NoEntry ELSE redisStore[key]]
    /\ UNCHANGED <<redisMode, clkPut, clkAge>>
    /\ UNCHANGED cacheVars
    /\ UNCHANGED exceptCache

CacheNext ==
    \/ FetchInstancesGet
    \/ FetchAllInstancesCall
    \/ DiscoverFetch
    \/ DiscoverSetAndReturn
    \/ RedisExpire

(***************************************************************************)
(*               THE WRITERS OF THE SERVICE-DISCOVERY FILE                 *)
(* writeSDConfig (lines 1046-1074), called at startup and by the           *)
(* versioning demo, and the file branch of prometheusHandler (lines        *)
(* 819-838).                                                               *)
(***************************************************************************)
Publishers == {"p1", "p2"}

Absent == "absent"

\* What each function encodes: writeSDConfig the Config (line 1068),
\* prometheusHandler the targets (line 830).  n tells the calls apart.
Document(op, n) ==
    (IF op = "writeSDConfig" THEN "config" ELSE "targets") \o ToString(n)

\* writeSDConfig begins at the backup (line 1051); prometheusHandler goes
\* straight to os.Create (line 821).
FirstStep(op) == IF op = "writeSDConfig" THEN "backup" ELSE "create"

\* What the caller of a finished write is told.  writeSDConfig has no
\* result: main logs the file as written (line 964) and the versioning demo
\* answers "completed" (lines 909-912) whatever happened.  prometheusHandler
\* answers 500 when os.Create or Encode failed (lines 822-834).
Reported(op, out) == IF op = "writeSDConfig" THEN "ok" ELSE out

PublishIdle ==
    /\ fsFile = Absent
    /\ fsBak = Absent
    /\ pbCalls = 0
    /\ pbOp = [p \in Publishers |-> "writeSDConfig"]
    /\ pbPc = [p \in Publishers |-> "idle"]
    /\ pbContent = [p \in Publishers |-> ""]
    /\ pbPrior = [p \in Publishers |-> Absent]
    /\ pbOut = [p \in Publishers |-> "ok"]

\* A write is called while no other write is under way.
PublishStart(p) ==
    /\ \A q \in Publishers : pbPc[q] \in {"idle", "done"}
    /\ pbCalls < MaxPublish
    /\ pbCalls' = pbCalls + 1
    /\ \E op \in {"writeSDConfig", "prometheusHandler"} :
          /\ pbOp' = [pbOp EXCEPT ![p] = op]
          /\ pbContent' = [pbContent EXCEPT ![p] = Document(op, pbCalls + 1)]
          /\ pbPc' = [pbPc EXCEPT ![p] = FirstStep(op)]
    /\ pbPrior' = [pbPrior EXCEPT ![p] = fsFile]
    /\ UNCHANGED <<fsFile, fsBak, pbOut>>
    /\ UNCHANGED exceptPublish

\* Lines 1051-1057: when os.Stat finds the file it is renamed to the backup
\* path, replacing what was there; a failed rename ends the call.
WriteSDConfigBackup(p) ==
    /\ pbPc[p] = "backup"
    /\ IF fsFile # Absent
       THEN \/ /\ fsBak' = fsFile
               /\ fsFile' = Absent
               /\ pbPc' = [pbPc EXCEPT ![p] = "create"]
               /\ UNCHANGED pbOut
            \/ /\ pbPc' = [pbPc EXCEPT ![p] = "done"]
               /\ pbOut' = [pbOut EXCEPT ![p] = "rename"]
               /\ UNCHANGED <<fsFile, fsBak>>
       ELSE /\ pbPc' = [pbPc EXCEPT ![p] = "create"]
            /\ UNCHANGED <<fsFile, fsBak, pbOut>>
    /\ UNCHANGED <<pbCalls, pbOp, pbContent, pbPrior>>
    /\ UNCHANGED exceptPublish

\* os.Create (lines 1059-1063, 821-826) truncates or creates the file; on
\* failure the call ends.
PublishCreate(p) ==
    /\ pbPc[p] = "create"
    /\ \/ /\ fsFile' = ""
          /\ pbPc' = [pbPc EXCEPT ![p] = "encode"]
          /\ UNCHANGED pbOut
       \/ /\ pbPc' = [pbPc EXCEPT ![p] = "done"]
          /\ pbOut' = [pbOut EXCEPT ![p] = "create"]
          /\ UNCHANGED fsFile
    /\ UNCHANGED <<fsBak, pbCalls, pbOp, pbContent, pbPrior>>
    /\ UNCHANGED exceptPublish

\* encoder.Encode (lines 1066-1071, 828-834) writes the document; on failure
\* the file stays as created.
PublishEncode(p) ==
    /\ pbPc[p] = "encode"
    /\ \/ /\ fsFile' = pbContent[p]
          /\ pbOut' = [pbOut EXCEPT ![p] = "ok"]
       \/ /\ pbOut' = [pbOut EXCEPT ![p] = "encode"]
          /\ UNCHANGED fsFile
    /\ pbPc' = [pbPc EXCEPT ![p] = "done"]
    /\ UNCHANGED <<fsBak, pbCalls, pbOp, pbContent, pbPrior>>
    /\ UNCHANGED exceptPublish

PublishNext ==
    \E p \in Publishers :
        \/ PublishStart(p)
        \/ WriteSDConfigBackup(p)
        \/ PublishCreate(p)
        \/ PublishEncode(p)

(***************************************************************************)
(*                THE RESOLUTION OF RESOURCE-GROUP NAMES                   *)
(* getResourceGroupID (lines 490-524) and resourceGroupIDCache (line 487). *)
(* The goroutines are workers of fetchAllInstances, started for any of the *)
(* accounts of a request (lines 645-650), so calls overlap.                *)
(***************************************************************************)
Resolvers == {"w1", "w2"}

\* The names asked for; no account has a group named "ghost".
ResolveNames == {"default", "prod", "ghost"}

\* What ListResourceGroups returns with the key of the account: the groups
\* of that account.  Ids are unique to the account.
ListResourceGroups(account) ==
    IF account = "account1"
    THEN <<[Name |-> "Default", ID |-> "rg-account1-Default"],
           [Name |-> "default", ID |-> "rg-account1-default"],
           [Name |-> "prod", ID |-> "rg-account1-prod"]>>
    ELSE <<[Name |-> "default", ID |-> "rg-account2-default"]>>

\* Lines 514-520: the id of the first listed group with exactly the name,
\* "" when there is none.
FindGroup(resources, name) ==
    IF \E i \in 1..Len(resources) : resources[i].Name = name
    THEN LET i == CHOOSE k \in 1..Len(resources) :
                     /\ resources[k].Name = name
                     /\ \A j \in 1..(k - 1) : resources[j].Name # name
         IN  resources[i].ID
    ELSE ""

\* A resolver for which a name no group has resolves to the empty id.
AfterList_EmptyIDOnMiss(listErr, id) ==
    IF listErr # "nil" THEN [id |-> "", err |-> "directory", store |-> FALSE]
    ELSE [id |-> id, err |-> "nil", store |-> TRUE]

\* Lines 508-523: a failed listing is returned as an error; a listed group
\* of the name is stored and returned; else the name is not found.
AfterList(listErr, id) ==
    IF listErr # "nil" THEN [id |-> "", err |-> "directory", store |-> FALSE]
    ELSE IF id # "" THEN [id |-> id, err |-> "nil", store |-> TRUE]
    ELSE [id |-> "", err |-> "notfound", store |-> FALSE]

NoResolved == [id |-> "", err |-> "nil"]

ResolveIdle ==
    /\ rgCache = [n \in ResolveNames |-> ""]
    /\ rvCalls = 0
    /\ rvPc = [w \in Resolvers |-> "idle"]
    /\ rvAccount = [w \in Resolvers |-> "account1"]
    /\ rvName = [w \in Resolvers |-> "default"]
    /\ rvRet = [w \in Resolvers |-> NoResolved]
    /\ rvLookups = [w \in Resolvers |-> 0]
    /\ rvListing = [w \in Resolvers |-> "none"]
    /\ rvStored = [w \in Resolvers |-> FALSE]
    /\ rvKnown = [w \in Resolvers |-> ""]
    /\ rgReturned = [n \in ResolveNames |-> ""]

\* What a successful return adds to the record of first returned ids.
NoteReturned(returned, name, ret) ==
    IF ret.err = "nil" /\ returned[name] = ""
    THEN [returned EXCEPT ![name] = ret.id]
    ELSE returned

\* getResourceGroupID(apiKey of account, name) is called: the Load of lines
\* 493-496.  A hit returns the stored id.
ResolveLoad(w) ==
    /\ rvPc[w] \in {"idle", "done"}
    /\ rvCalls < MaxResolve
    /\ rvCalls' = rvCalls + 1
    /\ \E account \in Accounts, name \in ResolveNames :
          /\ rvAccount' = [rvAccount EXCEPT ![w] = account]
          /\ rvName' = [rvName EXCEPT ![w] = name]
          /\ rvKnown' = [rvKnown EXCEPT ![w] = rgReturned[name]]
          /\ IF rgCache[name] # ""
             THEN /\ rvRet' = [rvRet EXCEPT ![w] = [id |-> rgCache[name], err |-> "nil"]]
                  /\ rvPc' = [rvPc EXCEPT ![w] = "done"]
                  /\ rgReturned' = NoteReturned(rgReturned, name,
                                                [id |-> rgCache[name], err |-> "nil"])
             ELSE /\ rvRet' = [rvRet EXCEPT ![w] = NoResolved]
                  /\ rvPc' = [rvPc EXCEPT ![w] = "listing"]
                  /\ UNCHANGED rgReturned
    /\ rvLookups' = [rvLookups EXCEPT ![w] = 0]
    /\ rvListing' = [rvListing EXCEPT ![w] = "none"]
    /\ rvStored' = [rvStored EXCEPT ![w] = FALSE]
    /\ UNCHANGED rgCache
    /\ UNCHANGED exceptResolve

\* Lines 507-523: the one ListResourceGroups call and what follows it.
ResolveList(w) ==
    /\ rvPc[w] = "listing"
    /\ \E listErr \in {"nil", "unavailable"} :
          LET id == FindGroup(ListResourceGroups(rvAccount[w]), rvName[w])
              out == AfterList(listErr, id)
          IN  /\ rvListing' = [rvListing EXCEPT ![w] =
                                  IF listErr = "nil" THEN "ok" ELSE "failed"]
              /\ rgCache' = IF out.store
                            THEN [rgCache EXCEPT ![rvName[w]] = out.id]
                            ELSE rgCache
              /\ rvStored' = [rvStored EXCEPT ![w] = out.store]
              /\ rvRet' = [rvRet EXCEPT ![w] = [id |-> out.id, err |-> out.err]]
              /\ rgReturned' = NoteReturned(rgReturned, rvName[w],
                                            [id |-> out.id, err |-> out.err])
    /\ rvLookups' = [rvLookups EXCEPT ![w] = rvLookups[w] + 1]
    /\ rvPc' = [rvPc EXCEPT ![w] = "done"]
    /\ UNCHANGED <<rvCalls, rvAccount, rvName, rvKnown>>
    /\ UNCHANGED exceptResolve

ResolveNext ==
    \E w \in Resolvers :
        \/ ResolveLoad(w)
        \/ ResolveList(w)

(***************************************************************************)
(*          THE GOROUTINES OF instanceHandler AND instanceCache            *)
(* Lines 639-678, one step per access to the map.  instanceCache is a      *)
(* plain map made once per request (line 640) and used by the goroutine of *)
(* every account.  An assignment to a map element is not one indivisible   *)
(* step: "store" is a goroutine inside the assignment of line 666.         *)
(***************************************************************************)
\* The regions of the instances fetchAllInstances returned to a goroutine.
FetchedRegionLists ==
    {<<>>, <<"us-east">>, <<"eu-de">>, <<"us-east", "eu-de">>, <<"us-east", "us-east">>}

\* One goroutine per position of accountList (lines 645-647).
Goroutines == {1, 2}

IPCacheIdle ==
    /\ icAccounts = <<>>
    /\ icRegions = <<>>
    /\ icInst = <<>>
    /\ icIdx = <<>>
    /\ icPc = <<>>
    /\ icMap = [r \in Range(AllRegions) |-> ""]
    /\ icCrashed = FALSE

\* Lines 636-653: the lists are split, the map is made, and each goroutine
\* has the instances of its account.
IPCacheInit ==
    /\ icAccounts \in {<<"account1">>, <<"account1", "account2">>}
    /\ icRegions \in {<<"us-east">>, <<"us-east", "eu-de">>}
    /\ icInst \in [DOMAIN icAccounts -> FetchedRegionLists]
    /\ icIdx = [i \in DOMAIN icAccounts |-> 1]
    /\ icPc = [i \in DOMAIN icAccounts |-> "loop"]
    /\ icMap = [r \in Range(AllRegions) |-> ""]
    /\ icCrashed = FALSE

\* The goroutines inside an assignment to the map.
Storing == {i \in DOMAIN icPc : icPc[i] = "store"}

\* Lines 655-662: the head of the loop, the region test and the read of the
\* map for the instance's region.
IPCacheLoop(i) ==
    /\ i \in DOMAIN icAccounts
    /\ ~icCrashed
    /\ icPc[i] = "loop"
    /\ IF icIdx[i] > Len(icInst[i])
       THEN /\ icPc' = [icPc EXCEPT ![i] = "send"]
            /\ UNCHANGED icIdx
       ELSE IF ~contains(icRegions, icInst[i][icIdx[i]])
       THEN /\ icIdx' = [icIdx EXCEPT ![i] = icIdx[i] + 1]
            /\ UNCHANGED icPc
       ELSE IF icMap[icInst[i][icIdx[i]]] = ""
       THEN /\ icPc' = [icPc EXCEPT ![i] = "refresh"]
            /\ UNCHANGED icIdx
       ELSE /\ icPc' = [icPc EXCEPT ![i] = "lookup"]
            /\ UNCHANGED icIdx
    /\ UNCHANGED <<icAccounts, icRegions, icInst, icMap, icCrashed>>
    /\ UNCHANGED exceptIPCache

\* Lines 661-666: getAPIKey fails and the loop continues, or fetchInstanceIPs
\* returns and the goroutine begins to assign its result to the map.
IPCacheRefresh(i) ==
    /\ i \in DOMAIN icAccounts
    /\ ~icCrashed
    /\ icPc[i] = "refresh"
    /\ \/ /\ icIdx' = [icIdx EXCEPT ![i] = icIdx[i] + 1]
          /\ icPc' = [icPc EXCEPT ![i] = "loop"]
       \/ /\ icPc' = [icPc EXCEPT ![i] = "store"]
          /\ UNCHANGED icIdx
    /\ UNCHANGED <<icAccounts, icRegions, icInst, icMap, icCrashed>>
    /\ UNCHANGED exceptIPCache

\* Line 666: the assignment ends.  While another goroutine is inside an
\* assignment to the same map, the runtime may instead end the process
\* ("fatal error: concurrent map writes").
IPCacheStore(i) ==
    /\ i \in DOMAIN icAccounts
    /\ ~icCrashed
    /\ icPc[i] = "store"
    /\ \/ /\ icMap' = [icMap EXCEPT ![icInst[i][icIdx[i]]] = icAccounts[i]]
          /\ icPc' = [icPc EXCEPT ![i] = "lookup"]
          /\ UNCHANGED icCrashed
       \/ /\ Storing # {i}
          /\ icCrashed' = TRUE
          /\ UNCHANGED <<icMap, icPc>>
    /\ UNCHANGED <<icAccounts, icRegions, icInst, icIdx>>
    /\ UNCHANGED exceptIPCache

\* Lines 669-673: the read of the entry of inst.ID and the overwriting of
\* the instance's fields.
IPCacheLookup(i) ==
    /\ i \in DOMAIN icAccounts
    /\ ~icCrashed
    /\ icPc[i] = "lookup"
    /\ icIdx' = [icIdx EXCEPT ![i] = icIdx[i] + 1]
    /\ icPc' = [icPc EXCEPT ![i] = "loop"]
    /\ UNCHANGED <<icAccounts, icRegions, icInst, icMap, icCrashed>>
    /\ UNCHANGED exceptIPCache

\* Line 676: the instances are handed to the handler.
IPCacheSend(i) ==
    /\ i \in DOMAIN icAccounts
    /\ ~icCrashed
    /\ icPc[i] = "send"
    /\ icPc' = [icPc EXCEPT ![i] = "done"]
    /\ UNCHANGED <<icAccounts, icRegions, icInst, icIdx, icMap, icCrashed>>
    /\ UNCHANGED exceptIPCache

IPCacheNext ==
    \E i \in Goroutines :
        \/ IPCacheLoop(i)
        \/ IPCacheRefresh(i)
        \/ IPCacheStore(i)
        \/ IPCacheLookup(i)
        \/ IPCacheSend(i)

(***************************************************************************)
(*                  THE ENRICHMENT OF LISTED INSTANCES                     *)
(* fetchFloatingIPs (lines 590-618) and the loop over result.Instances of  *)
(* fetchInstancesForRegionAndResourceGroup (lines 405-458); the loop of    *)
(* fetchInstancesForRegion (lines 316-357) is the same.                    *)
(***************************************************************************)
\* The network interfaces of raw instance k.
NicsOf(k) == {"nic" \o ToString(k) \o "a", "nic" \o ToString(k) \o "b"}

AllNics == UNION {NicsOf(k) : k \in 1..MaxBatch}

NicLists(k) ==
    {<<>>} \cup {<<n>> : n \in NicsOf(k)}
           \cup ({<<n, m>> : n, m \in NicsOf(k)} \ {<<x, x>> : x \in NicsOf(k)})

\* A floating IP bound to interface n.
BoundFip(n) == [Address |-> "169." \o n, Target |-> "nic", TargetID |-> n]

\* Floating IPs the map must skip: one without a target (line 601) and one
\* whose target is not a network interface (line 612).
UnboundFip == [Address |-> "169.0", Target |-> "none", TargetID |-> ""]
GatewayFip == [Address |-> "169.gw", Target |-> "gateway", TargetID |-> "nic1a"]

\* The listings of the region: the two to skip, then the bound ones.
FipListings ==
    {<<UnboundFip, GatewayFip>> \o fs :
        fs \in {<<>>, <<BoundFip("nic1a")>>, <<BoundFip("nic1b")>>,
                <<BoundFip("nic2a")>>, <<BoundFip("nic1b"), BoundFip("nic2b")>>,
                <<BoundFip("nic1a"), BoundFip("nic2a")>>}}

\* Raw instance k as ListInstances returns it, with how its tag listing ends.
RawInstance(k, nics, tagsFail) ==
    [Name |-> "vsi" \o ToString(k), ID |-> "id" \o ToString(k),
     CRN |-> "crn:" \o ToString(k), Nics |-> nics, TagsFail |-> tagsFail]

RawChoices(k) ==
    {RawInstance(k, nics, tagsFail) : nics \in NicLists(k), tagsFail \in BOOLEAN}

\* The pages of up to MaxBatch raw instances.
RawBatches ==
    UNION {{f \in [1..n -> UNION {RawChoices(k) : k \in 1..n}] :
               \A k \in 1..n : f[k] \in RawChoices(k)} : n \in 0..MaxBatch}

NoFloatingIPs == [n \in AllNics |-> ""]

RECURSIVE FloatingIPMap(_, _, _)
\* Lines 598-615 from position i on: a floating IP whose target is a
\* network interface is entered under the interface's id; the others are
\* skipped.
FloatingIPMap(listing, i, map) ==
    IF i > Len(listing) THEN map
    ELSE IF listing[i].Target = "nic" /\ listing[i].TargetID \in AllNics
    THEN FloatingIPMap(listing, i + 1,
                       [map EXCEPT ![listing[i].TargetID] = listing[i].Address])
    ELSE FloatingIPMap(listing, i + 1, map)

\* A join that looks at the first interface only.
PublicIPOf_FirstInterfaceOnly(nics, i, map, publicIP) ==
    IF nics # <<>> /\ map[nics[1]] # "" THEN map[nics[1]] ELSE ""

RECURSIVE PublicIPOf(_, _, _, _)
\* Lines 425-432 from interface i on: the address of the last interface
\* found in the map, "" when none is.
PublicIPOf(nics, i, map, publicIP) ==
    IF i > Len(nics) THEN publicIP
    ELSE PublicIPOf(nics, i + 1, map,
                    IF map[nics[i]] # "" THEN map[nics[i]] ELSE publicIP)

\* Lines 425-429: the primary address of the last interface.
PrivateIPOf(nics) == IF nics = <<>> THEN "" ELSE "10." \o nics[Len(nics)]

\* The tags attached to the instance of the CRN.
TagsOf(crn) == <<"owner:" \o crn>>

\* fetchInstanceTags, lines 269-293: (nil, err) when ListTags fails.
FetchInstanceTags(crn, fails) ==
    IF fails THEN [tags |-> <<>>, err |-> "tags"]
    ELSE [tags |-> TagsOf(crn), err |-> "nil"]

\* An enrichment in which an instance whose tags cannot be read is left out.
EmitAfterTags_SkipOnFailure(inst, tagsRes) ==
    IF tagsRes.err # "nil" THEN <<>> ELSE <<[inst EXCEPT !.Tags = tagsRes.tags]>>

\* Lines 440-458: the error of fetchInstanceTags is logged; the instance is
\* appended with the tags returned, which are nil on failure.
EmitAfterTags(inst, tagsRes) == <<[inst EXCEPT !.Tags = tagsRes.tags]>>

\* An Instance whose account attribute is the credential it was fetched with.
AccountField_Credential(apiKey, account) == apiKey

\* Line 449: Account: account, the account parameter of line 385.
AccountField(apiKey, account) == account

\* Lines 423-458 for one raw instance of the region, fetched for the account
\* with apiKey: what is appended to instances.
BuildInstance(apiKey, region, account, raw, map) ==
    EmitAfterTags([Name |-> raw.Name, ID |-> raw.ID, Region |-> region,
                   Account |-> AccountField(apiKey, account),
                   Status |-> "running",
                   AvailabilityZone |-> region \o "-1", InstanceID |-> raw.CRN,
                   PrivateIP |-> PrivateIPOf(raw.Nics),
                   PublicIP |-> PublicIPOf(raw.Nics, 1, map, ""),
                   Profile |-> "bx2-2x8", Tags |-> <<>>],
                  FetchInstanceTags(raw.CRN, raw.TagsFail))

\* The same for the page of SpecEnrich, which is a page of account1 in
\* us-east.
EnrichOne(raw, map) == BuildInstance("key-A", "us-east", "account1", raw, map)

EnrichIdle ==
    /\ enListing = <<>>
    /\ enFipFails = FALSE
    /\ enRaw = <<>>
    /\ enPc = "returned"
    /\ enMap = NoFloatingIPs
    /\ enIdx = 1
    /\ enOut = <<>>
    /\ enErr = "nil"

EnrichInit ==
    /\ enListing \in FipListings
    /\ enFipFails \in BOOLEAN
    /\ enRaw \in RawBatches
    /\ enPc = "start"
    /\ enMap = NoFloatingIPs
    /\ enIdx = 1
    /\ enOut = <<>>
    /\ enErr = "nil"

\* A unit that gives up when the floating IPs cannot be listed.
AfterFloatingIPs_Fatal(fails, listing) ==
    IF fails THEN [map |-> NoFloatingIPs, err |-> "floatingips", pc |-> "returned"]
    ELSE [map |-> FloatingIPMap(listing, 1, NoFloatingIPs), err |-> "nil", pc |-> "loop"]

\* Lines 405-409: the failure of fetchFloatingIPs is logged and the map stays
\* nil, in which no interface is found; the function goes on to list.
AfterFloatingIPs(fails, listing) ==
    [map |-> IF fails THEN NoFloatingIPs
             ELSE FloatingIPMap(listing, 1, NoFloatingIPs),
     err |-> "nil", pc |-> "loop"]

\* Lines 405-409: fetchFloatingIPs and what follows it.
EnrichFloatingIPs ==
    /\ enPc = "start"
    /\ enMap' = AfterFloatingIPs(enFipFails, enListing).map
    /\ enPc' = AfterFloatingIPs(enFipFails, enListing).pc
    /\ enErr' = AfterFloatingIPs(enFipFails, enListing).err
    /\ UNCHANGED <<enListing, enFipFails, enRaw, enIdx, enOut>>
    /\ UNCHANGED exceptEnrich

\* One turn of the loop of line 423.
EnrichInstance ==
    /\ enPc = "loop"
    /\ enIdx <= Len(enRaw)
    /\ enOut' = enOut \o EnrichOne(enRaw[enIdx], enMap)
    /\ enIdx' = enIdx + 1
    /\ UNCHANGED <<enListing, enFipFails, enRaw, enPc, enMap, enErr>>
    /\ UNCHANGED exceptEnrich

\* Lines 460-483 on the last page: return instances, nil.
EnrichReturn ==
    /\ enPc = "loop"
    /\ enIdx > Len(enRaw)
    /\ enPc' = "returned"
    /\ enErr' = "nil"
    /\ UNCHANGED <<enListing, enFipFails, enRaw, enMap, enIdx, enOut>>
    /\ UNCHANGED exceptEnrich

EnrichNext ==
    \/ EnrichFloatingIPs
    \/ EnrichInstance
    \/ EnrichReturn

(***************************************************************************)
(*                   THE TARGET BUILT FOR AN INSTANCE                      *)
(* Lines 794-817 of prometheusHandler for one instance of allInstances.    *)
(***************************************************************************)
\* Tags as the tagging service lists them; not in alphabetical order.
TagLists == UNION {[1..n -> {"zone:z", "app:a", "env:m"}] : n \in 0..MaxTags}

\* The instances a target is built for.
LabelInstances ==
    {[MkInstance(account, "us-east", rg) EXCEPT !.Tags = tags, !.PublicIP = pub] :
        account \in Accounts, rg \in RGNames, tags \in TagLists,
        pub \in {"", "169.1"}}

NoTarget == [targets |-> <<>>, labels |-> <<>>]

LabelIdle ==
    /\ lbInst = MkInstance("account1", "us-east", "default")
    /\ lbPc = "built"
    /\ lbTarget = NoTarget

LabelInit ==
    /\ lbInst \in LabelInstances
    /\ lbPc = "start"
    /\ lbTarget = NoTarget

\* One turn of the loop of line 793.
LabelBuild ==
    /\ lbPc = "start"
    /\ lbTarget' = Targets(<<lbInst>>)[1]
    /\ lbPc' = "built"
    /\ UNCHANGED lbInst
    /\ UNCHANGED exceptLabel

LabelNext == LabelBuild

(***************************************************************************)
(*               ONE DISCOVERY UNDER TWO CREDENTIALS                       *)
(* The path of an account's instances from getAPIKey to the cache entry,   *)
(* the answer of /instances and the targets, run once per credential with  *)
(* the same answers of the cloud.                                          *)
(***************************************************************************)
Runs == {1, 2}

\* The values the account's API key may have.
APIKeys == {"key-A", "key-B", "key-C"}

\* Lines 85-90: the environment variable of the account when it is set.
\* With neither it, a config file nor Vault, line 117.
GetAPIKey(envKey) ==
    IF envKey # "" THEN [key |-> envKey, err |-> "nil"]
    ELSE [key |-> "", err |-> "not found"]

NothingSet == [key |-> "", val |-> Marshal(<<>>)]

CredIdle ==
    /\ crEnv = [r \in Runs |-> "key-A"]
    /\ crAccount = "account1"
    /\ crRegion = "us-east"
    /\ crListing = <<>>
    /\ crRaw = RawInstance(1, <<>>, FALSE)
    /\ crPc = "published"
    /\ crInst = [r \in Runs |-> <<>>]
    /\ crRedis = [r \in Runs |-> NothingSet]
    /\ crResp = [r \in Runs |-> Encode(<<>>)]
    /\ crFile = [r \in Runs |-> <<>>]

CredInit ==
    /\ crEnv \in [Runs -> APIKeys]
    /\ crAccount \in Accounts
    /\ crRegion \in Range(AllRegions)
    /\ crListing \in {<<>>, <<BoundFip("nic1a")>>}
    /\ crRaw \in RawChoices(1)
    /\ crPc = "start"
    /\ crInst = [r \in Runs |-> <<>>]
    /\ crRedis = [r \in Runs |-> NothingSet]
    /\ crResp = [r \in Runs |-> Encode(<<>>)]
    /\ crFile = [r \in Runs |-> <<>>]

\* Lines 121, 145 and 385-458: the worker's fetch with the key of the run.
CredFetch ==
    /\ crPc = "start"
    /\ crInst' = [r \in Runs |->
                    IF GetAPIKey(crEnv[r]).err # "nil" THEN <<>>
                    ELSE BuildInstance(GetAPIKey(crEnv[r]).key, crRegion,
                                       crAccount, crRaw,
                                       FloatingIPMap(crListing, 1, NoFloatingIPs))]
    /\ crPc' = "fetched"
    /\ UNCHANGED <<crEnv, crAccount, crRegion, crListing, crRaw, crRedis, crResp, crFile>>
    /\ UNCHANGED exceptCred

\* Lines 165-169: the entry of the account is set.
CredCache ==
    /\ crPc = "fetched"
    /\ crRedis' = [r \in Runs |->
                     [key |-> CacheKey(crAccount), val |-> Marshal(crInst[r])]]
    /\ crPc' = "cached"
    /\ UNCHANGED <<crEnv, crAccount, crRegion, crListing, crRaw, crInst, crResp, crFile>>
    /\ UNCHANGED exceptCred

\* Lines 680-692: instanceHandler encodes allInstances.
CredRespond ==
    /\ crPc = "cached"
    /\ crResp' = [r \in Runs |-> Encode(crInst[r])]
    /\ crPc' = "responded"
    /\ UNCHANGED <<crEnv, crAccount, crRegion, crListing, crRaw, crInst, crRedis, crFile>>
    /\ UNCHANGED exceptCred

\* Lines 792-817: prometheusHandler builds the targets.
CredPublish ==
    /\ crPc = "responded"
    /\ crFile' = [r \in Runs |-> Targets(crInst[r])]
    /\ crPc' = "published"
    /\ UNCHANGED <<crEnv, crAccount, crRegion, crListing, crRaw, crInst, crRedis, crResp>>
    /\ UNCHANGED exceptCred

CredNext ==
    \/ CredFetch
    \/ CredCache
    \/ CredRespond
    \/ CredPublish

(***************************************************************************)
(*                  THE QUERY OF A REQUEST TO /instances                   *)
(* main registers instanceHandler behind a function that rewrites the      *)
(* query of the request (lines 967-970).                                   *)
(***************************************************************************)
QueryNames == {"accounts", "regions", "resource_groups"}

\* What -accounts, -regions and -resource_groups, or config.json, may give.
FlagValues ==
    [accounts : {"", "account1", "account2"},
     regions : {"", "us-east", "eu-de"},
     resource_groups : {"", "default", "prod"}]

\* What a request may give; "" is a parameter left out.
RequestQueries ==
    [accounts : {"", "account1", "account1,account2"},
     regions : {"", "us-east", "eu-de"},
     resource_groups : {"", "default", "default,prod"}]

\* Lines 935-946: an empty flag gets its default.
FlagDefaults(flags) ==
    [accounts |-> IF flags.accounts = "" THEN "account1,account2" ELSE flags.accounts,
     regions |-> IF flags.regions = "" THEN "us-east" ELSE flags.regions,
     resource_groups |-> IF flags.resource_groups = "" THEN "default"
                         ELSE flags.resource_groups]

\* One name=value of a query, nothing for a parameter left out.
QueryParam(name, value) == IF value = "" THEN <<>> ELSE <<name \o "=" \o value>>

RECURSIVE JoinAmp(_)
JoinAmp(params) ==
    IF params = <<>> THEN ""
    ELSE IF Len(params) = 1 THEN params[1]
    ELSE params[1] \o "&" \o JoinAmp(Tail(params))

\* The RawQuery of the request that gives the parameters of q.
RequestRawQuery(q) ==
    JoinAmp(QueryParam("accounts", q.accounts) \o QueryParam("regions", q.regions)
            \o QueryParam("resource_groups", q.resource_groups))

\* Line 968: the RawQuery the function of main writes.
WrapperRawQuery(accounts, regions, resourceGroups) ==
    "accounts=" \o accounts \o "&regions=" \o regions
                \o "&resource_groups=" \o resourceGroups

\* r.URL.Query().Get(name): the value of the parameter in the raw query, ""
\* when it is not there.
QueryGet(raw, name) ==
    LET parsed == [accounts : {"", "account1", "account2", "account1,account2"},
                   regions : {"", "us-east", "eu-de"},
                   resource_groups : {"", "default", "prod", "default,prod"}]
        q == CHOOSE p \in parsed :
                 raw \in {RequestRawQuery(p),
                          WrapperRawQuery(p.accounts, p.regions, p.resource_groups)}
    IN  q[name]

\* Lines 621-638: the lists of instanceHandler for the raw query.
InstanceHandlerLists(raw) ==
    [accounts |-> Split(IF QueryGet(raw, "accounts") = "" THEN "account1"
                        ELSE QueryGet(raw, "accounts")),
     regions |-> Split(IF QueryGet(raw, "regions") = "" THEN "us-east"
                       ELSE QueryGet(raw, "regions")),
     resource_groups |-> Split(IF QueryGet(raw, "resource_groups") = "" THEN "default"
                               ELSE QueryGet(raw, "resource_groups"))]

NoQuery == [n \in QueryNames |-> ""]

QueryIdle ==
    /\ qrFlags = NoQuery
    /\ qrPc = "idle"
    /\ qrConf = NoQuery
    /\ qrRequest = NoQuery
    /\ qrRawQuery = ""
    /\ qrLists = [n \in QueryNames |-> <<>>]

QueryInit ==
    /\ qrFlags \in FlagValues
    /\ qrPc = "start"
    /\ qrConf = NoQuery
    /\ qrRequest = NoQuery
    /\ qrRawQuery = ""
    /\ qrLists = [n \in QueryNames |-> <<>>]

\* Lines 916-948 and 967-987: main reads the flags and listens.
QueryMain ==
    /\ qrPc = "start"
    /\ qrConf' = FlagDefaults(qrFlags)
    /\ qrPc' = "listening"
    /\ UNCHANGED <<qrFlags, qrRequest, qrRawQuery, qrLists>>
    /\ UNCHANGED exceptQuery

\* Lines 967-970 and 621-638: a request to /instances with the query of q.
QueryServe ==
    /\ qrPc \in {"listening", "answered"}
    /\ \E q \in RequestQueries :
          /\ qrRequest' = q
          /\ qrRawQuery' = WrapperRawQuery(qrConf.accounts, qrConf.regions,
                                           qrConf.resource_groups)
    /\ qrLists' = InstanceHandlerLists(qrRawQuery')
    /\ qrPc' = "answered"
    /\ UNCHANGED <<qrFlags, qrConf>>
    /\ UNCHANGED exceptQuery

QueryNext ==
    \/ QueryMain
    \/ QueryServe

(***************************************************************************)
(*                   THE MASKING OF SENSITIVE STRINGS                      *)
(* maskAccount, maskToken and maskSensitiveData, lines 990-1010 and        *)
(* 1037-1043.  A string is the sequence of its characters.                 *)
(***************************************************************************)
SecretChars == {"a", "k"}

\* The non-empty strings of up to MaxSecretLen characters.
Secrets == UNION {[1..n -> SecretChars] : n \in 1..MaxSecretLen}

\* strings.Repeat(c, n).
Repeat(c, n) == [i \in 1..n |-> c]

\* Lines 990-995.
maskAccount(account) ==
    IF Len(account) > 4
    THEN SubSeq(account, 1, 2) \o Repeat("*", Len(account) - 4)
             \o SubSeq(account, Len(account) - 1, Len(account))
    ELSE account

\* Lines 1005-1010.
maskToken(token) ==
    IF Len(token) > 4
    THEN SubSeq(token, 1, 2) \o Repeat("*", Len(token) - 4)
             \o SubSeq(token, Len(token) - 1, Len(token))
    ELSE token

\* Lines 1038-1043.
maskSensitiveData(data) ==
    IF Len(data) > 4
    THEN SubSeq(data, 1, 2) \o Repeat("*", Len(data) - 4)
             \o SubSeq(data, Len(data) - 1, Len(data))
    ELSE data

\* The function a string of the kind is given to: an account key at lines
\* 117 and 236, a token at lines 375 and 475, an API key at line 858.
Masked(kind, s) ==
    CASE kind = "account" -> maskAccount(s)
      [] kind = "token" -> maskToken(s)
      [] kind = "data" -> maskSensitiveData(s)

MaskIdle ==
    /\ mkKind = "data"
    /\ mkIn = <<>>
    /\ mkPc = "idle"
    /\ mkOut = <<>>

MaskInit ==
    /\ mkKind \in {"account", "token", "data"}
    /\ mkIn \in Secrets
    /\ mkPc = "start"
    /\ mkOut = <<>>

\* The call that precedes the log.Printf or the Encode.
MaskApply ==
    /\ mkPc = "start"
    /\ mkOut' = Masked(mkKind, mkIn)
    /\ mkPc' = "masked"
    /\ UNCHANGED <<mkKind, mkIn>>
    /\ UNCHANGED exceptMask

MaskNext == MaskApply

(***************************************************************************)
(*                 TWO WRITES OF ONE PATH AT THE SAME TIME                 *)
(* Each request runs in its own goroutine, so two calls of writeSDConfig   *)
(* (lines 1046-1074, from the versioning demo) or of the file branch of    *)
(* prometheusHandler (lines 819-838) can be under way on one path.  One    *)
(* step per system call; a file is an inode, which a rename moves and a    *)
(* descriptor keeps open.  No call fails but a rename of a file that is    *)
(* gone.                                                                   *)
(***************************************************************************)
Racers == {"h1", "h2"}

\* The inodes: the one of the file there at first and one per os.Create.
Inodes == 1..3

\* The version the path holds before the calls.
V0 == <<"v0", "v0">>

\* The documents a writer may encode: the Config of the demo (lines
\* 902-907), the same bytes in every call, or targets, whose length depends
\* on the instances found.
RaceDocs(h, op) ==
    IF op = "writeSDConfig" THEN {<<"config", "config">>}
    ELSE {[i \in 1..n |-> "targets-" \o h] : n \in 1..MaxBlocks}

\* One Write of doc at offset 0 of a file holding old.
WriteAt0(doc, old) ==
    IF Len(old) <= Len(doc) THEN doc
    ELSE doc \o SubSeq(old, Len(doc) + 1, Len(old))

\* The inode os.Create opens: the one of the path, else one not in use.
CreatedInode(path, bak, fds) ==
    IF path # 0 THEN path
    ELSE CHOOSE n \in Inodes : n # bak /\ \A h \in Racers : fds[h] # n

RaceIdle ==
    /\ rcPath = 0
    /\ rcBak = 0
    /\ rcInode = [n \in Inodes |-> <<>>]
    /\ rcOp = [h \in Racers |-> "writeSDConfig"]
    /\ rcDoc = [h \in Racers |-> <<>>]
    /\ rcPc = [h \in Racers |-> "done"]
    /\ rcFd = [h \in Racers |-> 0]
    /\ rcOut = [h \in Racers |-> "ok"]

RaceInit ==
    /\ rcPath = 1
    /\ rcBak = 0
    /\ rcInode = [n \in Inodes |-> IF n = 1 THEN V0 ELSE <<>>]
    /\ rcOp \in [Racers -> {"writeSDConfig", "prometheusHandler"}]
    /\ rcDoc \in [Racers -> UNION {RaceDocs(h, op) :
                     h \in Racers, op \in {"writeSDConfig", "prometheusHandler"}}]
    /\ \A h \in Racers : rcDoc[h] \in RaceDocs(h, rcOp[h])
    /\ rcPc = [h \in Racers |-> FirstStep(rcOp[h])]
    /\ rcFd = [h \in Racers |-> 0]
    /\ rcOut = [h \in Racers |-> "ok"]

\* Line 1051: os.Stat of the path.
RaceStat(h) ==
    /\ rcPc[h] = "backup"
    /\ rcPc' = [rcPc EXCEPT ![h] = IF rcPath # 0 THEN "rename" ELSE "create"]
    /\ UNCHANGED <<rcPath, rcBak, rcInode, rcOp, rcDoc, rcFd, rcOut>>
    /\ UNCHANGED exceptRace

\* Lines 1052-1055: os.Rename moves the file of the path to the backup
\* path; it fails when the file is no longer there, and the call returns.
RaceRename(h) ==
    /\ rcPc[h] = "rename"
    /\ IF rcPath # 0
       THEN /\ rcBak' = rcPath
            /\ rcPath' = 0
            /\ rcPc' = [rcPc EXCEPT ![h] = "create"]
            /\ UNCHANGED rcOut
       ELSE /\ rcPc' = [rcPc EXCEPT ![h] = "done"]
            /\ rcOut' = [rcOut EXCEPT ![h] = "rename"]
            /\ UNCHANGED <<rcPath, rcBak>>
    /\ UNCHANGED <<rcInode, rcOp, rcDoc, rcFd>>
    /\ UNCHANGED exceptRace

\* Lines 1059 and 821: os.Create makes the file or truncates the one there.
RaceCreate(h) ==
    /\ rcPc[h] = "create"
    /\ LET n == CreatedInode(rcPath, rcBak, rcFd)
       IN  /\ rcPath' = n
           /\ rcInode' = [rcInode EXCEPT ![n] = <<>>]
           /\ rcFd' = [rcFd EXCEPT ![h] = n]
    /\ rcPc' = [rcPc EXCEPT ![h] = "encode"]
    /\ UNCHANGED <<rcBak, rcOp, rcDoc, rcOut>>
    /\ UNCHANGED exceptRace

\* Lines 1066-1068 and 828-830: Encode writes the document to the open
\* file in one Write, and the call returns.
RaceEncode(h) ==
    /\ rcPc[h] = "encode"
    /\ rcInode' = [rcInode EXCEPT ![rcFd[h]] = WriteAt0(rcDoc[h], rcInode[rcFd[h]])]
    /\ rcPc' = [rcPc EXCEPT ![h] = "done"]
    /\ UNCHANGED <<rcPath, rcBak, rcOp, rcDoc, rcFd, rcOut>>
    /\ UNCHANGED exceptRace

RaceNext ==
    \E h \in Racers :
        \/ RaceStat(h)
        \/ RaceRename(h)
        \/ RaceCreate(h)
        \/ RaceEncode(h)

(***************************************************************************)
(*                            SPECIFICATIONS                               *)
(***************************************************************************)
InitWalk == WalkInit /\ RedisIdle /\ FetchIdle /\ PoolIdle /\ HandlerIdle /\ CacheIdle /\ PublishIdle /\ ResolveIdle /\ IPCacheIdle /\ EnrichIdle /\ ClockIdle /\ LabelIdle /\ CredIdle /\ QueryIdle /\ MaskIdle /\ RaceIdle

SpecWalk == InitWalk /\ [][WalkNext]_vars

InitFetch == FetchInit /\ WalkIdle /\ RedisIdle /\ PoolIdle /\ HandlerIdle /\ CacheIdle /\ PublishIdle /\ ResolveIdle /\ IPCacheIdle /\ EnrichIdle /\ ClockIdle /\ LabelIdle /\ CredIdle /\ QueryIdle /\ MaskIdle /\ RaceIdle

SpecFetch == InitFetch /\ [][FetchNext]_vars

InitPool == PoolInit /\ WalkIdle /\ RedisIdle /\ FetchIdle /\ HandlerIdle /\ CacheIdle /\ PublishIdle /\ ResolveIdle /\ IPCacheIdle /\ EnrichIdle /\ ClockIdle /\ LabelIdle /\ CredIdle /\ QueryIdle /\ MaskIdle /\ RaceIdle

SpecPool == InitPool /\ [][PoolNext]_vars

InitHandler == HandlerInit /\ WalkIdle /\ RedisIdle /\ FetchIdle /\ PoolIdle /\ CacheIdle /\ PublishIdle /\ ResolveIdle /\ IPCacheIdle /\ EnrichIdle /\ ClockIdle /\ LabelIdle /\ CredIdle /\ QueryIdle /\ MaskIdle /\ RaceIdle

SpecHandler == InitHandler /\ [][HandlerNext]_vars

\* Redis is up for the whole behaviour, or down for the whole behaviour.
InitCache ==
    /\ CacheIdle /\ WalkIdle /\ FetchIdle /\ PoolIdle /\ HandlerIdle /\ PublishIdle
    /\ RaceIdle
    /\ MaskIdle
    /\ QueryIdle
    /\ CredIdle
    /\ LabelIdle
    /\ ClockIdle
    /\ EnrichIdle
    /\ IPCacheIdle
    /\ ResolveIdle
    /\ redisMode \in {"up", "down"}
    /\ redisStore = RedisEmpty

SpecCache == InitCache /\ [][CacheNext]_vars

InitPublish ==
    /\ PublishIdle /\ WalkIdle /\ RedisIdle /\ FetchIdle /\ PoolIdle
    /\ RaceIdle
    /\ MaskIdle
    /\ QueryIdle
    /\ CredIdle
    /\ LabelIdle
    /\ ClockIdle
    /\ EnrichIdle
    /\ IPCacheIdle
    /\ ResolveIdle
    /\ HandlerIdle /\ CacheIdle

SpecPublish == InitPublish /\ [][PublishNext]_vars

InitResolve ==
    /\ ResolveIdle /\ WalkIdle /\ RedisIdle /\ FetchIdle /\ PoolIdle
    /\ RaceIdle
    /\ MaskIdle
    /\ QueryIdle
    /\ CredIdle
    /\ LabelIdle
    /\ ClockIdle
    /\ EnrichIdle
    /\ IPCacheIdle
    /\ HandlerIdle /\ CacheIdle /\ PublishIdle

SpecResolve == InitResolve /\ [][ResolveNext]_vars

InitIPCache ==
    /\ IPCacheInit /\ WalkIdle /\ RedisIdle /\ FetchIdle /\ PoolIdle
    /\ RaceIdle
    /\ MaskIdle
    /\ QueryIdle
    /\ CredIdle
    /\ LabelIdle
    /\ ClockIdle
    /\ EnrichIdle
    /\ HandlerIdle /\ CacheIdle /\ PublishIdle /\ ResolveIdle

SpecIPCache == InitIPCache /\ [][IPCacheNext]_vars

InitEnrich ==
    /\ EnrichInit /\ WalkIdle /\ RedisIdle /\ FetchIdle /\ PoolIdle
    /\ RaceIdle
    /\ MaskIdle
    /\ QueryIdle
    /\ CredIdle
    /\ LabelIdle
    /\ ClockIdle
    /\ HandlerIdle /\ CacheIdle /\ PublishIdle /\ ResolveIdle /\ IPCacheIdle

SpecEnrich == InitEnrich /\ [][EnrichNext]_vars

InitLabel ==
    /\ LabelInit /\ WalkIdle /\ RedisIdle /\ FetchIdle /\ PoolIdle
    /\ RaceIdle
    /\ MaskIdle
    /\ QueryIdle
    /\ CredIdle
    /\ HandlerIdle /\ CacheIdle /\ PublishIdle /\ ResolveIdle /\ IPCacheIdle
    /\ EnrichIdle /\ ClockIdle

SpecLabel == InitLabel /\ [][LabelNext]_vars

InitCred ==
    /\ CredInit /\ WalkIdle /\ RedisIdle /\ FetchIdle /\ PoolIdle
    /\ RaceIdle
    /\ MaskIdle
    /\ QueryIdle
    /\ HandlerIdle /\ CacheIdle /\ PublishIdle /\ ResolveIdle /\ IPCacheIdle
    /\ EnrichIdle /\ ClockIdle /\ LabelIdle

SpecCred == InitCred /\ [][CredNext]_vars

InitQuery ==
    /\ QueryInit /\ WalkIdle /\ RedisIdle /\ FetchIdle /\ PoolIdle
    /\ RaceIdle
    /\ MaskIdle
    /\ HandlerIdle /\ CacheIdle /\ PublishIdle /\ ResolveIdle /\ IPCacheIdle
    /\ EnrichIdle /\ ClockIdle /\ LabelIdle /\ CredIdle

SpecQuery == InitQuery /\ [][QueryNext]_vars

InitMask ==
    /\ MaskInit /\ WalkIdle /\ RedisIdle /\ FetchIdle /\ PoolIdle
    /\ RaceIdle
    /\ HandlerIdle /\ CacheIdle /\ PublishIdle /\ ResolveIdle /\ IPCacheIdle
    /\ EnrichIdle /\ ClockIdle /\ LabelIdle /\ CredIdle /\ QueryIdle

SpecMask == InitMask /\ [][MaskNext]_vars

InitRace ==
    /\ RaceInit /\ WalkIdle /\ RedisIdle /\ FetchIdle /\ PoolIdle
    /\ HandlerIdle /\ CacheIdle /\ PublishIdle /\ ResolveIdle /\ IPCacheIdle
    /\ EnrichIdle /\ ClockIdle /\ LabelIdle /\ CredIdle /\ QueryIdle /\ MaskIdle

SpecRace == InitRace /\ [][RaceNext]_vars

(***************************************************************************)
(*                     PROPERTIES OF fetchAllInstances                     *)
(***************************************************************************)
\* The units of the pass whose fetch returned no error.
OkUnits == {u \in DOMAIN faWork : wRes[u].err = "nil"}

RECURSIVE SumLen(_, _)
\* The number of instances the units of set us returned.
SumLen(res, us) ==
    IF us = {} THEN 0
    ELSE LET u == CHOOSE x \in us : TRUE
         IN  Len(res[u].instances) + SumLen(res, us \ {u})

\* C1: when a pass returns, every unit has run to its end; every unit that
\* did not fail has all its instances in the aggregate, whatever the other
\* units did; a failed unit contributes nothing, and the pass returns no
\* error.
C1_FailureIsolation ==
    (faPc = "returned" /\ faWork # <<>>) =>
        /\ faRet.err = "nil"
        /\ \A u \in DOMAIN faWork : wPc[u] = "done"
        /\ \A u \in OkUnits :
              \A i \in 1..Len(wRes[u].instances) :
                  wRes[u].instances[i] \in Range(faRet.instances)
        /\ Len(faRet.instances) = SumLen(wRes, OkUnits)

\* A pass returned in which one unit failed on resolving its resource group,
\* another on listing, and two further units delivered their instances.
C1_Witness ==
    /\ faPc = "returned"
    /\ \E u, v \in DOMAIN faWork : wRes[u].err = "resolve" /\ wRes[v].err = "list"
    /\ Cardinality(OkUnits) >= 2
    /\ Len(faRet.instances) >= 2

\* C3: the aggregate of a returned pass holds exactly one Instance per
\* canonical id (InstanceID).
C3_OnePerCanonicalID ==
    faPc = "returned" =>
        \A i, j \in 1..Len(faRet.instances) :
            faRet.instances[i].InstanceID = faRet.instances[j].InstanceID => i = j

\* C26: in a returned pass no (region, resource group) pair was dispatched
\* to two workers, every unit was dispatched and has ended, and the
\* aggregate is the union, with multiplicity, of what the units that
\* succeeded returned.
C26_FetchedExactlyOnce ==
    (faPc = "returned" /\ faWork # <<>>) =>
        /\ \A u, v \in DOMAIN faWork : faWork[u] = faWork[v] => u = v
        /\ \A u \in DOMAIN faWork : wPc[u] = "done"
        /\ \A u \in OkUnits :
              \A i \in 1..Len(wRes[u].instances) :
                  wRes[u].instances[i] \in Range(faRet.instances)
        /\ Len(faRet.instances) = SumLen(wRes, OkUnits)

\* C33: the entry of the account in the cache holds a complete result: a
\* pass in which a unit failed leaves no entry holding its partial aggregate.
C33_CacheHoldsCompleteResult ==
    (faPc = "returned" /\ redisStore[CacheKey(faAccount)].present) =>
        \A u \in DOMAIN faWork : wRes[u].err = "nil"

CountIn(seq, x) == Cardinality({i \in 1..Len(seq) : seq[i] = x})

RECURSIVE SumCount(_, _)
\* How often x occurs in what the units of us returned.
SumCount(x, us) ==
    IF us = {} THEN 0
    ELSE LET u == CHOOSE v \in us : TRUE
         IN  CountIn(wRes[u].instances, x) + SumCount(x, us \ {u})

\* C37: a pass whose key lookup and region listing succeeded returns the nil
\* error and, as often as they were sent, the instances of the units that
\* succeeded, however many units failed; with every unit failed it returns
\* the empty sequence and the nil error, nothing else.
C37_NilErrorWithUnion ==
    (faPc = "returned" /\ faRet.err \notin {"apikey", "regions"}) =>
        /\ faRet = Ret(faRet.instances, "nil")
        /\ \A u \in OkUnits : \A i \in 1..Len(wRes[u].instances) :
              CountIn(faRet.instances, wRes[u].instances[i])
                  = SumCount(wRes[u].instances[i], OkUnits)
        /\ \A i \in 1..Len(faRet.instances) :
              SumCount(faRet.instances[i], OkUnits) > 0
        /\ OkUnits = {} => faRet.instances = <<>>

\* C37 witness: a pass of several units, all of which failed, has returned
\* the empty sequence with the nil error.
C37_Witness ==
    /\ faPc = "returned"
    /\ Len(faWork) >= 2
    /\ \A u \in DOMAIN faWork : wRes[u].err # "nil"
    /\ faRet = Ret(<<>>, "nil")

(***************************************************************************)
(*                       PROPERTIES OF THE CACHE                           *)
(***************************************************************************)
\* C6: a discovery that ran with Redis unavailable for every command returns
\* what its fan-out produced, with the fan-out's error (nil when the key and
\* region lookups succeed), exactly as a discovery that started on an empty
\* working cache does; the store is left as it was.
C6_CacheFallback ==
    (dcPc = "returned" /\ (redisMode = "down" \/ ~dcStart.present)) =>
        /\ dcPipe.set
        /\ dcRet = dcPipe
        /\ redisMode = "down" => redisStore = RedisEmpty

\* A discovery by each function returned instances with Redis down.
C6_Witness ==
    /\ dcPc = "returned"
    /\ redisMode = "down"
    /\ dcCalls = 2
    /\ dcFn = "fetchInstances"
    /\ dcRet.err = "nil"
    /\ Len(dcRet.instances) >= 2

\* C22: every entry in the store has the time-to-live of 5 minutes and is
\* younger than that; a fetchInstances call made more than 5 minutes after
\* the last Set of its account's key that succeeded finds no entry and goes
\* on to fetch.
C22_FixedTimeToLive ==
    /\ \A key \in DOMAIN redisStore :
          redisStore[key].present =>
              /\ redisStore[key].ttl = 5
              /\ AgeOf(key) >= 0 /\ AgeOf(key) < 5
    /\ (dcCalls > 0 /\ dcFn = "fetchInstances" /\ clkAge > 5) =>
          /\ ~dcStart.present
          /\ dcPc = "returned" => dcPipe.set

\* A fetchInstances call, made 6 minutes after the Set of an earlier call
\* for the same account, has fetched again and returned.
C22_Witness ==
    /\ dcCalls = 2
    /\ dcFn = "fetchInstances"
    /\ clkAge = 6
    /\ dcPc = "returned"
    /\ dcPipe.set
    /\ redisMode = "up"

\* C7: the fan-out of a discovery has run only if the cache held no
\* readable entry of the account when the discovery started.
C7_PipelineOnlyOnMiss ==
    (dcPc \in {"set", "returned"} /\ dcPipe.set) =>
        ~(redisMode = "up" /\ dcStart.present
            /\ Unmarshal(dcStart.bytes).err = "nil")

(***************************************************************************)
(*                    PROPERTIES OF THE FILE WRITERS                       *)
(***************************************************************************)
\* C10: whichever function wrote it, the latest write, once completed onto a
\* path that held a file, has left the new document at the path and the
\* file's earlier content at the path + ".bak".
C10_BackupBeforeWrite ==
    \A p \in Publishers :
        (/\ pbPc[p] = "done" /\ pbOut[p] = "ok" /\ pbPrior[p] # Absent
         /\ pbContent[p] = Document(pbOp[p], pbCalls)) =>
            /\ fsFile = pbContent[p]
            /\ fsBak = pbPrior[p]

\* The write called last.
Latest(p) == pbPc[p] # "idle" /\ pbContent[p] = Document(pbOp[p], pbCalls)

\* C11: a write that ended in a failed rename, create or encode is reported
\* as failed to its caller, and after a failed rename the path still holds
\* what it held when the write was called.
C11_FailureReported ==
    \A p \in Publishers :
        (Latest(p) /\ pbPc[p] = "done" /\ pbOut[p] # "ok") =>
            /\ Reported(pbOp[p], pbOut[p]) # "ok"
            /\ pbOut[p] = "rename" => fsFile = pbPrior[p]

\* A file a reader can use: it exists and holds a whole document.
Complete(content) == content \notin {Absent, ""}

\* C12: from the call of a write onto a path holding a complete document
\* on, whether the write is under way, succeeded or failed, the path holds a
\* complete document.
C12_ReaderFindsCompleteVersion ==
    \A p \in Publishers :
        (Latest(p) /\ Complete(pbPrior[p])) => Complete(fsFile)

\* The documents that are sequences of target groups.
IsTargetGroups(content) ==
    \E n \in 1..pbCalls : content = Document("prometheusHandler", n)

\* C13: after a write by any function succeeded, the path holds a sequence
\* of target groups.
C13_FileHoldsTargetGroups ==
    \A p \in Publishers :
        (Latest(p) /\ pbPc[p] = "done" /\ pbOut[p] = "ok") =>
            IsTargetGroups(fsFile)

\* The content of the file a name points to, <<>> when there is no file.
FileAt(name) == IF name = 0 THEN <<>> ELSE rcInode[name]

\* C35: once two calls under way at once on a path that held V0 have both
\* returned, the path holds the whole document of one of them and the backup
\* path holds V0 or the whole document of one of them.
C35_BothVersionsComplete ==
    (\A h \in Racers : rcPc[h] = "done") =>
        /\ rcPath # 0
        /\ \E h \in Racers : rcOut[h] = "ok" /\ FileAt(rcPath) = rcDoc[h]
        /\ rcBak # 0
        /\ \/ FileAt(rcBak) = V0
           \/ \E h \in Racers : rcOut[h] = "ok" /\ FileAt(rcBak) = rcDoc[h]

(***************************************************************************)
(*                     PROPERTIES OF THE RESOLVER                          *)
(***************************************************************************)
\* C14: a call for a name made after some call had returned an id for that
\* name returns that id and issues no ListResourceGroups call.
C14_MemoizedResolve ==
    \A w \in Resolvers :
        (rvPc[w] = "done" /\ rvKnown[w] # "") =>
            /\ rvRet[w] = [id |-> rvKnown[w], err |-> "nil"]
            /\ rvLookups[w] = 0

\* C15: no step replaces the id stored for a name by a different id.
C15_WriteOncePerName ==
    [][\A n \in ResolveNames : rgCache[n] # "" => rgCache'[n] = rgCache[n]]_vars

C31_OneQueryPerName ==
    \A w, v \in Resolvers :
        (/\ w # v
         /\ rvPc[w] = "done" /\ rvPc[v] = "done"
         /\ rvAccount[w] = rvAccount[v] /\ rvName[w] = rvName[v]
         /\ rvRet[w].err = "nil" /\ rvRet[v].err = "nil") =>
            /\ rvLookups[w] + rvLookups[v] <= 1
            /\ rvRet[w].id = rvRet[v].id

\* C32: the id a call returns for an account is the id of a group of that
\* name listed in the directory of that account.
C32_IdOfOwnAccount ==
    \A w \in Resolvers :
        (rvPc[w] = "done" /\ rvRet[w].err = "nil") =>
            \E i \in 1..Len(ListResourceGroups(rvAccount[w])) :
                /\ ListResourceGroups(rvAccount[w])[i].Name = rvName[w]
                /\ ListResourceGroups(rvAccount[w])[i].ID = rvRet[w].id

(***************************************************************************)
(*                    PROPERTIES OF THE ENRICHMENT                         *)
(***************************************************************************)
\* The floating addresses bound to the interfaces of a raw instance in the
\* listing the map was built from.
BoundAddresses(raw) ==
    IF enFipFails THEN {}
    ELSE {enListing[i].Address : i \in
             {j \in 1..Len(enListing) :
                 /\ enListing[j].Target = "nic"
                 /\ enListing[j].TargetID \in Range(raw.Nics)}}

\* C18: every raw instance of the page is emitted, in order and with no
\* error; its public address is a floating address bound to one of its
\* interfaces, and is empty exactly when no interface of it has one.
C18_PublicAddressJoin ==
    enPc = "returned" =>
        /\ enErr = "nil"
        /\ Len(enOut) = Len(enRaw)
        /\ \A k \in 1..Len(enOut) :
              /\ enOut[k].ID = enRaw[k].ID
              /\ IF BoundAddresses(enRaw[k]) = {}
                 THEN enOut[k].PublicIP = ""
                 ELSE enOut[k].PublicIP \in BoundAddresses(enRaw[k])

\* A page of two instances returned, the first with a floating address on
\* its second interface, the second with interfaces but no floating address.
C18_Witness ==
    /\ enPc = "returned"
    /\ Len(enRaw) = 2
    /\ enRaw[1].Nics = <<"nic1a", "nic1b">>
    /\ enOut[1].PublicIP = "169.nic1b"
    /\ enRaw[2].Nics # <<>>
    /\ enOut[2].PublicIP = ""
    /\ Cardinality({k \in 1..2 : enOut[k].PublicIP # ""}) = 1

\* C38: a unit whose floating-address listing failed still returns every
\* raw instance of its page, in order, each with an empty public address,
\* and returns no error.
C38_FloatingIPFailureNonFatal ==
    (enPc = "returned" /\ enFipFails) =>
        /\ enErr = "nil"
        /\ Len(enOut) = Len(enRaw)
        /\ \A k \in 1..Len(enOut) :
              /\ enOut[k].ID = enRaw[k].ID
              /\ enOut[k].PublicIP = ""

\* C38 witness: a page of two instances returned after the listing failed,
\* in a region where an interface of the first has a floating address.
C38_Witness ==
    /\ enPc = "returned"
    /\ enFipFails
    /\ Len(enRaw) = 2
    /\ Len(enOut) = 2
    /\ \E i \in 1..Len(enListing) :
          enListing[i].Target = "nic" /\ enListing[i].TargetID \in Range(enRaw[1].Nics)
    /\ enOut[1].PublicIP = ""

\* The primary network interface of raw instance k: its interface "a" when
\* the instance has it, wherever ListInstances puts it in NetworkInterfaces,
\* else its only interface.
PrimaryNic(k, nics) ==
    IF ("nic" \o ToString(k) \o "a") \in Range(nics)
    THEN "nic" \o ToString(k) \o "a"
    ELSE nics[1]

\* C25: the private address of an emitted instance that has interfaces is
\* the primary IP of its primary network interface.
C25_PrivateAddressOfPrimaryNic ==
    enPc = "returned" =>
        \A k \in 1..Len(enOut) :
            enRaw[k].Nics # <<>> =>
                enOut[k].PrivateIP = "10." \o PrimaryNic(k, enRaw[k].Nics)

\* C19: every raw instance of the page is emitted and the page returns no
\* error; an instance whose tag listing failed has no tags, every other
\* instance has the tags attached to it.
C19_TagFailureNonFatal ==
    enPc = "returned" =>
        /\ enErr = "nil"
        /\ Len(enOut) = Len(enRaw)
        /\ \A k \in 1..Len(enOut) :
              /\ enOut[k].InstanceID = enRaw[k].CRN
              /\ enOut[k].Tags = IF enRaw[k].TagsFail THEN <<>>
                                 ELSE TagsOf(enRaw[k].CRN)

\* A page of two instances returned where the tag listing of the first
\* failed: both are emitted, the second with its tags.
C19_Witness ==
    /\ enPc = "returned"
    /\ Len(enRaw) = 2
    /\ enRaw[1].TagsFail /\ ~enRaw[2].TagsFail
    /\ Len(enOut) = 2
    /\ enOut[1].Tags = <<>>
    /\ enOut[2].Tags = TagsOf(enRaw[2].CRN)

(***************************************************************************)
(*                      PROPERTIES OF THE HANDLERS                         *)
(***************************************************************************)
\* C16: at no moment of a request are two goroutines inside an assignment
\* to the plain map instanceCache, and the runtime never ends the process
\* for concurrent map writes.
C16_NoSharedPlainMapWrite ==
    /\ Cardinality(Storing) <= 1
    /\ ~icCrashed

\* The instances the passes of the request discovered.
Discovered ==
    UNION {Range(hdFetched[i].instances) : i \in DOMAIN hdAccounts}

\* Whether target t is the target group of instance inst.
TargetOf(t, inst) ==
    /\ t.targets = <<inst.PrivateIP>>
    /\ t.labels["instance_id"] = inst.InstanceID
    /\ t.labels["region"] = inst.Region

\* The sequence of targets in an encoded document.
Decoded(doc) == doc[2]

\* C4: the targets prometheusHandler publishes, in the response body and in
\* the written file, are the target groups of discovered instances whose
\* region is in the requested region list, and every discovered instance
\* whose region is in that list has its target group.
C4_PublishedRegionsFiltered ==
    (hdKind = "prometheus" /\ hdPc = "responded" /\ hdResp.status = 200) =>
        /\ \A t \in Range(Decoded(hdResp.body)) :
              /\ contains(hdRegions, t.labels["region"])
              /\ \E inst \in Discovered : TargetOf(t, inst)
        /\ \A inst \in Discovered :
              contains(hdRegions, inst.Region) =>
                  \E t \in Range(Decoded(hdResp.body)) : TargetOf(t, inst)
        /\ hdFile.written => hdFile.content = hdResp.body

\* prometheusHandler answered and wrote the file for a request whose passes
\* discovered instances inside and outside the requested regions.
C4_Witness ==
    /\ hdKind = "prometheus"
    /\ hdPc = "responded"
    /\ hdResp.status = 200
    /\ hdFile.written
    /\ \E inst \in Discovered : ~contains(hdRegions, inst.Region)
    /\ \E inst \in Discovered : contains(hdRegions, inst.Region)
    /\ Len(Decoded(hdResp.body)) >= 2

\* C5: the Instance sequence /instances returns holds only instances whose
\* region is in the requested region list.
C5_InstancesRegionsFiltered ==
    (hdKind = "instances" /\ hdPc = "responded") =>
        \A k \in 1..Len(Decoded(hdResp.body)) :
            contains(hdRegions, Decoded(hdResp.body)[k].Region)

\* Whether the pass of goroutine i returned the instances of all its units.
FetchedAll(i) ==
    /\ hdFetched[i].set
    /\ hdFetched[i].err = "nil"
    /\ hdFetched[i].instances =
          Aggregate(hdAccounts[i], WorkSet(AllRegions, hdRGs),
                    1..(Len(AllRegions) * Len(hdRGs)))

\* The canonical ids in the response body.
RespondedIDs ==
    IF hdKind = "instances"
    THEN {inst.InstanceID : inst \in Range(Decoded(hdResp.body))}
    ELSE {t.labels["instance_id"] : t \in Range(Decoded(hdResp.body))}

\* C20: a request without the resource_groups parameter whose passes all
\* succeeded answers with every instance of the requested accounts in the
\* requested regions, of whatever resource group.
C20_AbsentFilterMeansNoFilter ==
    (/\ hdRawRGs = ""
     /\ hdPc = "responded"
     /\ hdResp.status = 200
     /\ \A i \in DOMAIN hdAccounts : FetchedAll(i)) =>
        \A i \in DOMAIN hdAccounts, rg \in RGNames :
            \A r \in {x \in Range(AllRegions) : contains(hdRegions, x)} :
                MkInstance(hdAccounts[i], r, rg).InstanceID \in RespondedIDs

\* The instances goroutine i has to contribute: those its pass returned,
\* for prometheusHandler those of them in a requested region.
Contribution(i) ==
    IF hdFetched[i].err # "nil" THEN {}
    ELSE {k \in 1..Len(hdFetched[i].instances) :
             hdKind = "prometheus" =>
                 contains(hdRegions, hdFetched[i].instances[k].Region)}

RECURSIVE SumContributions(_)
SumContributions(is) ==
    IF is = {} THEN 0
    ELSE LET i == CHOOSE x \in is : TRUE
         IN  Cardinality(Contribution(i)) + SumContributions(is \ {i})

\* C21: a request comes to its answer whatever passes fail; in a 200 answer
\* every instance contributed by an account whose pass succeeded is present,
\* and an account whose pass failed on the key or the region listing adds
\* nothing.
C21_AccountFailureIsolated ==
    /\ hdPc # "responded" => ENABLED HandlerNext
    /\ (hdPc = "responded" /\ hdResp.status = 200) =>
          /\ \A i \in DOMAIN hdAccounts : \A k \in Contribution(i) :
                hdFetched[i].instances[k].InstanceID \in RespondedIDs
          /\ Len(Decoded(hdResp.body)) = SumContributions(DOMAIN hdAccounts)

\* A request for two accounts answered 200 where the key of account1 was
\* not found and the instances of account2 are in the answer.
C21_Witness ==
    /\ hdPc = "responded"
    /\ hdResp.status = 200
    /\ hdAccounts = <<"account1", "account2">>
    /\ hdFetched[1].err = "apikey"
    /\ hdFetched[2].err = "nil"
    /\ Len(hdFetched[2].instances) >= 2
    /\ Len(Decoded(hdResp.body)) >= 1

\* The attributes the address lookup of the handler is to leave alone.
FrameFields ==
    {"Name", "ID", "Region", "Account", "Status", "AvailabilityZone",
     "InstanceID", "Profile", "Tags"}

\* C34: every instance /instances answers with has the name, id, region,
\* account, status, availability zone, canonical id, profile and tags with
\* which a pass of the request fetched it.
C34_EnrichedFieldsKept ==
    (hdKind = "instances" /\ hdPc = "responded") =>
        \A k \in 1..Len(Decoded(hdResp.body)) :
            \E i \in DOMAIN hdAccounts :
                \E j \in 1..Len(hdFetched[i].instances) :
                    \A f \in FrameFields :
                        Decoded(hdResp.body)[k][f] = hdFetched[i].instances[j][f]

(***************************************************************************)
(*                      PROPERTIES OF THE TARGETS                          *)
(***************************************************************************)
\* The label keys tag_0, tag_1, ... up to index n - 1.
TagKeys(n) == {"tag_" \o ToString(i) : i \in 0..(n - 1)}

\* C23: the target of an instance with tags t_0..t_{N-1} has the label tag_i
\* with value t_i for every i < N, in the order of the instance's tags, and
\* no tag label of another index.
C23_PositionalTagLabels ==
    lbPc = "built" =>
        /\ \A i \in 0..(Len(lbInst.Tags) - 1) :
              /\ ("tag_" \o ToString(i)) \in DOMAIN lbTarget.labels
              /\ lbTarget.labels["tag_" \o ToString(i)] = lbInst.Tags[i + 1]
        /\ DOMAIN lbTarget.labels \cap TagKeys(MaxTags + 2) = TagKeys(Len(lbInst.Tags))

\* A target was built for an instance with three tags that are not in
\* alphabetical order.
C23_Witness ==
    /\ lbPc = "built"
    /\ lbInst.Tags = <<"zone:z", "app:a", "env:m">>
    /\ lbTarget.labels["tag_0"] = "zone:z"
    /\ lbTarget.labels["tag_2"] = "env:m"

\* The nine fixed label keys and the attribute each one holds.
NineLabels(inst) ==
    [instance |-> inst.Name, region |-> inst.Region, account |-> inst.Account,
     status |-> inst.Status, private_ip |-> inst.PrivateIP,
     public_ip |-> inst.PublicIP, instance_id |-> inst.InstanceID,
     availability_zone |-> inst.AvailabilityZone, profile |-> inst.Profile]

\* C24: a target has one address, the private address of its instance; its
\* label keys are the nine fixed keys and the tag labels, and each fixed
\* label holds the attribute of the instance it is named after.
C24_ExactLabelSet ==
    lbPc = "built" =>
        /\ lbTarget.targets = <<lbInst.PrivateIP>>
        /\ DOMAIN lbTarget.labels =
              DOMAIN NineLabels(lbInst) \cup TagKeys(Len(lbInst.Tags))
        /\ \A k \in DOMAIN NineLabels(lbInst) :
              lbTarget.labels[k] = NineLabels(lbInst)[k]

(***************************************************************************)
(*                     PROPERTIES OF THE CREDENTIAL                        *)
(***************************************************************************)
\* Whether the string v is a credential.
IsCredential(v) == v \in APIKeys

\* Whether no attribute of the instance holds a credential.
CredentialFree(inst) ==
    /\ \A f \in DOMAIN inst \ {"Tags"} : ~IsCredential(inst[f])
    /\ \A t \in Range(inst.Tags) : ~IsCredential(t)

\* C27: no field of an Instance, of the cache entry, of the answer of
\* /instances or of a published target label holds the account's credential;
\* the account attribute is the logical account key; and two runs that differ
\* only in the value of the credential, the cloud answering the same, have
\* the same instances, cache entry, answer and targets.
C27_CredentialNonInterference ==
    /\ crInst[1] = crInst[2]
    /\ crRedis[1] = crRedis[2]
    /\ crResp[1] = crResp[2]
    /\ crFile[1] = crFile[2]
    /\ \A r \in Runs :
          /\ \A i \in 1..Len(crInst[r]) :
                crInst[r][i].Account = crAccount /\ CredentialFree(crInst[r][i])
          /\ ~IsCredential(crRedis[r].key)
          /\ \A i \in 1..Len(Unmarshal(crRedis[r].val).instances) :
                CredentialFree(Unmarshal(crRedis[r].val).instances[i])
          /\ \A i \in 1..Len(crResp[r][2]) : CredentialFree(crResp[r][2][i])
          /\ \A i \in 1..Len(crFile[r]) :
                /\ crFile[r][i].labels["account"] = crAccount
                /\ \A k \in DOMAIN crFile[r][i].labels :
                      ~IsCredential(crFile[r][i].labels[k])
                /\ \A t \in Range(crFile[r][i].targets) : ~IsCredential(t)

\* C27 witness: both runs, with different credentials, have published the
\* target of a fetched instance, after caching it and answering with it.
C27_Witness ==
    /\ crPc = "published"
    /\ crEnv[1] # crEnv[2]
    /\ crInst[1] # <<>>
    /\ crFile[1] # <<>> /\ crFile[2] # <<>>
    /\ crRedis[1].key = CacheKey(crAccount)
    /\ crResp[2] = Encode(crInst[2])

(***************************************************************************)
(*                  PROPERTIES OF THE REQUEST'S QUERY                      *)
(***************************************************************************)
\* The defaults the README gives for the parameters of GET /instances.
DocumentedDefault ==
    [accounts |-> "account1,account2", regions |-> "us-east",
     resource_groups |-> "default"]

\* C28: GET /instances answers for the accounts, regions and resource groups
\* of the request's own query parameters; a documented default stands in
\* only for a parameter the request leaves out.
C28_RequestParametersHonoured ==
    qrPc = "answered" =>
        \A n \in QueryNames :
            qrLists[n] = Split(IF qrRequest[n] # "" THEN qrRequest[n]
                               ELSE DocumentedDefault[n])

(***************************************************************************)
(*                      PROPERTIES OF THE MASKING                          *)
(***************************************************************************)
\* The positions of s after its first two and before its last two characters.
Hidden(s) == {i \in 1..Len(s) : i > 2 /\ i <= Len(s) - 2}

\* Whether s and t differ in hidden positions only.
SameShown(s, t) ==
    /\ Len(s) = Len(t)
    /\ \A i \in (1..Len(s)) \ Hidden(s) : s[i] = t[i]

\* C29: the masked form of a non-empty sensitive string differs from the
\* string, shows none of its characters but the first two and the last two,
\* and is the same for two strings that differ only in the hidden ones.
C29_MaskHidesSecret ==
    mkPc = "masked" =>
        /\ mkOut # mkIn
        /\ Len(mkOut) = Len(mkIn)
        /\ \A i \in Hidden(mkIn) : mkOut[i] = "*"
        /\ \A t \in Secrets : SameShown(mkIn, t) => Masked(mkKind, t) = mkOut

(***************************************************************************)
(*                     PROPERTIES OF THE WORKER SLOTS                      *)
(***************************************************************************)
RECURSIVE SumOver(_, _)
\* The sum of f over the accounts of set as.
SumOver(f, as) ==
    IF as = {} THEN 0
    ELSE LET a == CHOOSE x \in as : TRUE
         IN  f[a] + SumOver(f, as \ {a})

\* C2: at every moment of a request, the work units in flight (inside their
\* fetch call) over all requested accounts are at most the pool capacity.
C2_InFlightWithinCapacity == SumOver(plRunning, Accounts) <= PoolCapacity

(***************************************************************************)
(*                        PROPERTIES OF THE WALK                           *)
(***************************************************************************)
\* Every page before the last carries a well-formed Href with a cursor.
WellFormedChain(pages) ==
    \A k \in 1..Len(pages) - 1 :
        pages[k].next.kind = "href" /\ pages[k].next.parses /\ pages[k].next.start # ""

\* The instances of all pages of a chain.
AllItems(pages) == Concat([k \in 1..Len(pages) |-> pages[k].items])

\* C8: on a chain of n pages whose pages 1..n-1 carry a non-empty cursor and
\* whose page n carries none or an empty one, the walk never issues more
\* than n list calls, the first without a start marker and call k+1 with
\* the cursor of page k, and a walk that returns without a list failure has
\* issued exactly n calls and returns the instances of all n pages.
C8_PaginationTerminates ==
    WellFormedChain(wkPages) =>
        /\ Len(wkCalls) <= Len(wkPages)
        /\ wkCalls # <<>> => wkCalls[1] = ""
        /\ \A k \in 2..Len(wkCalls) : wkCalls[k] = wkPages[k - 1].next.start
        /\ (wkPc = "returned" /\ wkErr = "nil") =>
              /\ Len(wkCalls) = Len(wkPages)
              /\ wkInstances = AllItems(wkPages)

\* A walk over cursors [c1, c2, ""] that returned after three calls.
C8_Witness ==
    /\ Len(wkPages) = 3
    /\ WellFormedChain(wkPages)
    /\ wkPages[3].next = Href(TRUE, "")
    /\ wkPc = "returned"
    /\ wkErr = "nil"
    /\ wkCalls = <<"", wkPages[1].next.start, wkPages[2].next.start>>
    /\ Len(wkInstances) = 3

\* C9: a walk that returns no error has read every page of the chain: it
\* never returns only the instances of the pages read so far.
C9_NoSilentTruncation ==
    (wkPc = "returned" /\ wkPages # <<>> /\ wkErr = "nil") =>
        /\ Len(wkCalls) = Len(wkPages)
        /\ wkInstances = AllItems(wkPages)

\* C30: no pass is stuck with its dispatcher waiting for a worker slot while
\* every holder of a slot waits to send to a collector that has not started.
C30_NoDispatchDeadlock ==
    \A a \in Accounts :
        ~(/\ plPc[a] = "dispatch"
          /\ plNext[a] < plUnits[a]
          /\ ~SlotFree(SlotsHeld(a))
          /\ plRunning[a] = 0)

====
